---- MODULE Spec2Model ----
(***************************************************************************)
(* Model of the math_cli execution core: the VariableStore                 *)
(* (core/variables.py), the FunctionRegistry (core/user_functions.py),     *)
(* PluginManager (core/plugin_manager.py): registration, discovery and     *)
(* execute_operation, the scripting                                        *)
(* built-ins (plugins/variable_plugin.py, plugins/function_plugin.py,      *)
(* plugins/script_plugin.py) and ScriptRunner (cli/script_runner.py).      *)
(*                                                                         *)
(* The interpreter is single threaded.  The Python call stack is the       *)
(* variable ctl: one record per active execute_operation or                *)
(* run_script_string call, innermost last.  A top-level call is accepted   *)
(* only when ctl is empty.  disk is what glob("*.py") yields in the user's *)
(* plugin directory.  The interactive shell (cli/interactive_mode.py) and  *)
(* the managers of utils/history.py and utils/sessions.py are the          *)
(* variables last_result, history and sessions.                            *)
(***************************************************************************)
EXTENDS Integers, Sequences, FiniteSets, TLC

VARIABLES store, functions, plugin_manager, disk, history, sessions, last_result,
          ctl, ret, last

vars == <<store, functions, plugin_manager, disk, history, sessions, last_result,
          ctl, ret, last>>

\* the objects of the interactive shell: its HistoryManager, its
\* SessionManager and the result of its last command
shell == <<history, sessions, last_result>>

(***************************************************************************)
(* Bounds of the model.                                                    *)
(***************************************************************************)
\* deepest scope stack the direct push_scope() caller builds
MaxScopes == 2
\* Python frames available to nested execute_operation / run calls
MaxCallDepth == 5
\* most files a plugin directory holds when it is scanned
MaxFiles == 2
\* largest max_entries a HistoryManager is created with
MaxHistory == 2

(***************************************************************************)
(* Values.  A Python value is a record: k is its type, n its number, s its *)
(* text.  A float here always has an integral value n.                     *)
(***************************************************************************)
IntV(n) == [k |-> "int", n |-> n, s |-> ""]
FloatV(n) == [k |-> "float", n |-> n, s |-> ""]
StrV(s) == [k |-> "str", n |-> 0, s |-> s]
BoolV(b) == [k |-> "bool", n |-> IF b THEN 1 ELSE 0, s |-> ""]
NoneV == [k |-> "none", n |-> 0, s |-> ""]

\* a value of a type json cannot encode and the store does not save (an
\* object(), a set, an array)
ObjectV == [k |-> "object", n |-> 0, s |-> ""]

\* a list of one element: s is the type of the element, n its number
ListV(elem) == [k |-> "list", n |-> elem.n, s |-> elem.k]

\* decimal numerals, Digits[i + 1] is str(i)
Digits == <<"0", "1", "2", "3", "4", "5", "6", "7", "8", "9", "10", "11", "12">>

IntStr(n) == IF n + 1 \in DOMAIN Digits THEN Digits[n + 1] ELSE "<int>"

\* int(token) succeeds
IsIntToken(t) == \E i \in DOMAIN Digits : Digits[i] = t

IntOfToken(t) == (CHOOSE i \in DOMAIN Digits : Digits[i] = t) - 1

\* variable names and the tokens that reference them
Names == {"x", "y"}

Sigil(name) == "$" \o name

\* a name as a caller may write it: bare or with the leading '$'
RawNames == Names \cup {Sigil(name) : name \in Names}

\* token.startswith('$')
StartsWithSigil(t) == \E name \in Names : t = Sigil(name)

\* token[1:] when the token starts with '$', else the token
StripSigil(t) ==
    IF StartsWithSigil(t) THEN CHOOSE name \in Names : t = Sigil(name) ELSE t

\* str(value)
PyStr(v) ==
    CASE v.k = "int" -> IntStr(v.n)
      [] v.k = "float" -> IntStr(v.n) \o ".0"
      [] v.k = "bool" -> (IF v.n = 1 THEN "True" ELSE "False")
      [] v.k = "none" -> "None"
      [] OTHER -> v.s

(***************************************************************************)
(* VariableStore.  A table is a function from the names it binds to their  *)
(* values.  The store is the record of the object's fields; file is the    *)
(* JSON document at _persistence_path.                                     *)
(***************************************************************************)
EmptyTable == [name \in {} |-> NoneV]

Bind(table, name, value) ==
    [m \in (DOMAIN table) \cup {name} |-> IF m = name THEN value ELSE table[m]]

Unbind(table, name) == [m \in (DOMAIN table) \ {name} |-> table[m]]

\* dict.update
Update(table, other) ==
    [m \in (DOMAIN table) \cup (DOMAIN other) |->
        IF m \in DOMAIN other THEN other[m] ELSE table[m]]

\* isinstance(value, (int, float, str, bool, list, dict))
IsSaveable(v) == v.k \in {"int", "float", "str", "bool", "list", "dict"}

Saveable(table) ==
    [m \in {q \in DOMAIN table : IsSaveable(table[q])} |-> table[m]]

\* json.dump encodes the value without raising TypeError
JsonEncodable(v) ==
    \/ v.k \in {"int", "float", "str", "bool"}
    \/ v.k = "list" /\ v.s \in {"int", "float", "bool"}

\* the file at _persistence_path, as json.load reads it: the entries of a
\* complete document, or nothing but a JSONDecodeError from a text that
\* breaks off
Document(table) == [complete |-> TRUE, entries |-> table]

Truncated == [complete |-> FALSE, entries |-> EmptyTable]

\* open(path, 'w') empties the file and json.dump writes it entry by entry;
\* at the first value it cannot encode it raises TypeError, which is
\* swallowed, and the text written so far stays
save_persistent_vars(S) ==
    LET saveable_vars == Saveable(S.persistent_vars)
    IN  IF \A m \in DOMAIN saveable_vars : JsonEncodable(saveable_vars[m])
        THEN [S EXCEPT !.file = Document(saveable_vars)]
        ELSE [S EXCEPT !.file = Truncated]

\* the persistent table of a store that loads the document
load_persistent_vars(document) ==
    IF document.complete THEN Saveable(document.entries) ELSE EmptyTable

\* set that binds the name as given, leading '$' included
set_keeps_sigil(S, rawname, value, persistent) ==
    LET S1 == IF S.scope_stack # <<>>
              THEN [S EXCEPT !.scope_stack[Len(S.scope_stack)] = Bind(@, rawname, value)]
              ELSE [S EXCEPT !.global_vars = Bind(@, rawname, value)]
    IN  IF persistent
        THEN save_persistent_vars([S1 EXCEPT !.persistent_vars = Bind(@, rawname, value)])
        ELSE S1

\* set that ignores the active scope and always writes the global table
set_global(S, rawname, value, persistent) ==
    LET name == StripSigil(rawname)
        S1 == [S EXCEPT !.global_vars = Bind(@, name, value)]
    IN  IF persistent
        THEN save_persistent_vars([S1 EXCEPT !.persistent_vars = Bind(@, name, value)])
        ELSE S1

set(S, rawname, value, persistent) ==
    LET name == StripSigil(rawname)
        S1 == IF S.scope_stack # <<>>
              THEN [S EXCEPT !.scope_stack[Len(S.scope_stack)] = Bind(@, name, value)]
              ELSE [S EXCEPT !.global_vars = Bind(@, name, value)]
    IN  IF persistent
        THEN save_persistent_vars([S1 EXCEPT !.persistent_vars = Bind(@, name, value)])
        ELSE S1

\* indexes of the frames that bind name
FramesWith(S, name) ==
    {i \in DOMAIN S.scope_stack : name \in DOMAIN S.scope_stack[i]}

Max(set_of_nat) == CHOOSE i \in set_of_nat : \A j \in set_of_nat : j <= i

Min(set_of_nat) == CHOOSE i \in set_of_nat : \A j \in set_of_nat : i <= j

\* has that looks at the scope frames and the global table only
has_without_persistent(S, rawname) ==
    LET name == StripSigil(rawname)
    IN  \/ FramesWith(S, name) # {}
        \/ name \in DOMAIN S.global_vars

has(S, rawname) ==
    LET name == StripSigil(rawname)
    IN  \/ FramesWith(S, name) # {}
        \/ name \in DOMAIN S.global_vars
        \/ name \in DOMAIN S.persistent_vars

\* get returns a value; it raises NameError exactly when GetFails
GetFails(S, rawname) ==
    LET name == StripSigil(rawname)
    IN  /\ FramesWith(S, name) = {}
        /\ name \notin DOMAIN S.global_vars
        /\ name \notin DOMAIN S.persistent_vars

\* get that walks the scope stack oldest frame first
get_oldest_first(S, rawname) ==
    LET name == StripSigil(rawname)
    IN  IF FramesWith(S, name) # {}
        THEN S.scope_stack[Min(FramesWith(S, name))][name]
        ELSE IF name \in DOMAIN S.global_vars
        THEN S.global_vars[name]
        ELSE S.persistent_vars[name]

get(S, rawname) ==
    LET name == StripSigil(rawname)
    IN  IF FramesWith(S, name) # {}
        THEN S.scope_stack[Max(FramesWith(S, name))][name]
        ELSE IF name \in DOMAIN S.global_vars
        THEN S.global_vars[name]
        ELSE S.persistent_vars[name]

\* delete raises NameError exactly when DeleteFails
DeleteFails(S, rawname) ==
    LET name == StripSigil(rawname)
    IN  /\ ~(S.scope_stack # <<>> /\ name \in DOMAIN S.scope_stack[Len(S.scope_stack)])
        /\ name \notin DOMAIN S.global_vars
        /\ name \notin DOMAIN S.persistent_vars

\* delete that reports success for a persistent entry without removing it
delete_keeps_persistent(S, rawname) ==
    LET name == StripSigil(rawname)
    IN  IF S.scope_stack # <<>> /\ name \in DOMAIN S.scope_stack[Len(S.scope_stack)]
        THEN [S EXCEPT !.scope_stack[Len(S.scope_stack)] = Unbind(@, name)]
        ELSE IF name \in DOMAIN S.global_vars
        THEN [S EXCEPT !.global_vars = Unbind(@, name)]
        ELSE S

delete(S, rawname) ==
    LET name == StripSigil(rawname)
    IN  IF S.scope_stack # <<>> /\ name \in DOMAIN S.scope_stack[Len(S.scope_stack)]
        THEN [S EXCEPT !.scope_stack[Len(S.scope_stack)] = Unbind(@, name)]
        ELSE IF name \in DOMAIN S.global_vars
        THEN [S EXCEPT !.global_vars = Unbind(@, name)]
        ELSE IF name \in DOMAIN S.persistent_vars
        THEN save_persistent_vars([S EXCEPT !.persistent_vars = Unbind(@, name)])
        ELSE S

RECURSIVE MergeFrames(_, _)
MergeFrames(table, frames) ==
    IF frames = <<>> THEN table
    ELSE MergeFrames(Update(table, Head(frames)), Tail(frames))

\* list_all that lets the global table shadow the scope frames
list_all_globals_last(S) ==
    Update(MergeFrames(S.persistent_vars, S.scope_stack), S.global_vars)

list_all(S) ==
    MergeFrames(Update(S.persistent_vars, S.global_vars), S.scope_stack)

clear_all(S, include_persistent) ==
    LET S1 == [S EXCEPT !.global_vars = EmptyTable, !.scope_stack = <<>>]
    IN  IF include_persistent
        THEN save_persistent_vars([S1 EXCEPT !.persistent_vars = EmptyTable])
        ELSE S1

\* push_scope that pushes no frame, so that the callee shares the scope of its
\* caller
push_scope_shared(S) == S

push_scope(S) == [S EXCEPT !.scope_stack = Append(@, EmptyTable)]

\* pop_scope that removes the oldest frame
pop_scope_oldest(S) ==
    IF S.scope_stack # <<>>
    THEN [S EXCEPT !.scope_stack = Tail(@)]
    ELSE S

pop_scope(S) ==
    IF S.scope_stack # <<>>
    THEN [S EXCEPT !.scope_stack = SubSeq(@, 1, Len(@) - 1)]
    ELSE S

(***************************************************************************)
(* FunctionRegistry.  A UserFunction is its parameter list, its body and   *)
(* its description (None or a string); the body string is held as the      *)
(* token list body.split() yields (def builds it by joining                *)
(* whitespace-free tokens with single blanks).                             *)
(***************************************************************************)
UserFunction(parameters, body, description) ==
    [parameters |-> parameters, body |-> body, description |-> description]

NoFunctions == [name \in {} |-> UserFunction(<<>>, <<>>, NoneV)]

\* str.isidentifier() on the tokens of the model
IsIdentifier(t) ==
    /\ ~IsIntToken(t)
    /\ ~StartsWithSigil(t)
    /\ t \notin {"", "=", "#"}

exists(F, name) == name \in DOMAIN F

\* define that rejects the empty name only
DefineFails_empty_only(name) == name = ""

\* define raises ValueError exactly when DefineFails
DefineFails(name) == name = "" \/ ~IsIdentifier(name)

\* the message of that ValueError
DefineErrorMsg(name) ==
    IF name = "" THEN "Function name must be a non-empty string"
    ELSE "Invalid function name: " \o name

\* define that keeps the description of the definition it replaces when it
\* is given none
define_merge(F, name, parameters, body, description) ==
    [m \in (DOMAIN F) \cup {name} |->
        IF m = name
        THEN UserFunction(parameters, body,
                          IF description = NoneV /\ name \in DOMAIN F
                          THEN F[name].description ELSE description)
        ELSE F[m]]

define(F, name, parameters, body, description) ==
    [m \in (DOMAIN F) \cup {name} |->
        IF m = name THEN UserFunction(parameters, body, description) ELSE F[m]]

func_delete(F, name) == [m \in (DOMAIN F) \ {name} |-> F[m]]

(***************************************************************************)
(* HistoryManager.  history is the list of the entries, most recent first; *)
(* an entry is its command and its result (the timestamp is left out);     *)
(* file is the list last written to the history file.                      *)
(***************************************************************************)
HistoryEntry(command, result) == [command |-> command, result |-> result]

\* self.history[:n]
Prefix(seq, n) == SubSeq(seq, 1, IF n < Len(seq) THEN n ELSE Len(seq))

\* the fields after __init__, which loads the history file when persistent
HistoryManager(max_entries, persistent, file) ==
    [history |-> IF persistent THEN Prefix(file, max_entries) ELSE <<>>,
     max_entries |-> max_entries, persistent |-> persistent, file |-> file]

save_history(H) == IF H.persistent THEN [H EXCEPT !.file = H.history] ELSE H

\* add_entry that trims by dropping the entry it has just inserted
add_entry_drops_newest(H, command, result) ==
    LET inserted == <<HistoryEntry(command, result)>> \o H.history
    IN  save_history([H EXCEPT !.history = IF Len(inserted) > H.max_entries
                                            THEN Tail(inserted)
                                            ELSE inserted])

add_entry(H, command, result) ==
    LET inserted == <<HistoryEntry(command, result)>> \o H.history
    IN  save_history([H EXCEPT !.history = IF Len(inserted) > H.max_entries
                                            THEN SubSeq(inserted, 1, Len(inserted) - 1)
                                            ELSE inserted])

\* get_entry returns None exactly when the index is out of range
GetEntryIsNone(H, index) == ~(0 <= index /\ index < Len(H.history))

get_entry(H, index) == H.history[index + 1]

history_clear(H) == save_history([H EXCEPT !.history = <<>>])

(***************************************************************************)
(* SessionManager.  index.sessions is the dict of the sessions as the list *)
(* of its items in insertion order, an item being a session id and the     *)
(* name in its metadata; None is the empty string for last_active and for  *)
(* current_session_id, which no session id equals.  files is the set of    *)
(* the ids that have a session file and index_file the index last saved.   *)
(***************************************************************************)
EmptyIndex == [sessions |-> <<>>, last_active |-> ""]

\* the fields after __init__, which loads the index file
SessionManager(index, files) ==
    [index |-> index, current_session_id |-> "", files |-> files, index_file |-> index]

\* the keys of self.index["sessions"]
SessionKeys(M) == {M.index.sessions[i].id : i \in DOMAIN M.index.sessions}

\* str.lower() on the names and identifiers of the model
Lower(t) == IF t \in {"Work", "WORK"} THEN "work" ELSE t

\* the session an identifier stands for: the identifier when it is a key,
\* else the first session whose name equals it without regard to case, else
\* none
FindSession(M, identifier) ==
    IF identifier \in SessionKeys(M) THEN identifier
    ELSE LET hits == {i \in DOMAIN M.index.sessions :
                        Lower(M.index.sessions[i].name) = Lower(identifier)}
         IN  IF hits = {} THEN "" ELSE M.index.sessions[Min(hits)].id

\* self.index["sessions"][session_id] = {"name": name, ...}
PutSession(items, session_id, name) ==
    IF \E i \in DOMAIN items : items[i].id = session_id
    THEN [i \in DOMAIN items |-> IF items[i].id = session_id
                                 THEN [id |-> session_id, name |-> name]
                                 ELSE items[i]]
    ELSE Append(items, [id |-> session_id, name |-> name])

\* del self.index["sessions"][session_id]
DelSession(items, session_id) == SelectSeq(items, LAMBDA item : item.id # session_id)

save_index(M) == [M EXCEPT !.index_file = M.index]

\* name is None or a string; written is whether the session file could be
\* written
create_session(M, session_id, name, written) ==
    LET given == IF name = NoneV
                 THEN "Session " \o IntStr(Len(M.index.sessions) + 1)
                 ELSE name.s
    IN  IF ~written THEN M
        ELSE save_index([M EXCEPT !.files = @ \cup {session_id},
                                  !.index.sessions = PutSession(@, session_id, given),
                                  !.index.last_active = session_id,
                                  !.current_session_id = session_id])

\* load_session returns None
LoadFails(M, identifier) ==
    FindSession(M, identifier) = "" \/ FindSession(M, identifier) \notin M.files

load_session(M, identifier) ==
    IF LoadFails(M, identifier) THEN M
    ELSE save_index([M EXCEPT !.current_session_id = FindSession(M, identifier),
                              !.index.last_active = FindSession(M, identifier)])

rename_session(M, identifier, new_name) ==
    IF FindSession(M, identifier) = "" THEN M
    ELSE save_index([M EXCEPT !.index.sessions =
                                 PutSession(@, FindSession(M, identifier), new_name)])

\* delete_session returns False; unlinked is whether the session file could
\* be removed
DeleteRefused(M, identifier, unlinked) ==
    \/ FindSession(M, identifier) = ""
    \/ FindSession(M, identifier) = M.current_session_id
    \/ FindSession(M, identifier) \in M.files /\ ~unlinked

\* delete_session that leaves last_active as it is
delete_session_keeps_last_active(M, identifier, unlinked) ==
    IF DeleteRefused(M, identifier, unlinked) THEN M
    ELSE LET session_id == FindSession(M, identifier)
         IN  save_index([M EXCEPT !.files = @ \ {session_id},
                                  !.index.sessions = DelSession(@, session_id)])

delete_session(M, identifier, unlinked) ==
    IF DeleteRefused(M, identifier, unlinked) THEN M
    ELSE LET session_id == FindSession(M, identifier)
         IN  save_index([M EXCEPT !.files = @ \ {session_id},
                                  !.index.sessions = DelSession(@, session_id),
                                  !.index.last_active =
                                      IF @ = session_id THEN "" ELSE @])

(***************************************************************************)
(* Results of a call: Returned with a value, or Failed with the Python     *)
(* exception type and its message.                                         *)
(***************************************************************************)
NoRun == [success |-> FALSE, lines_executed |-> 0, outputs |-> <<>>, error |-> NoneV]

NoResult == [status |-> "none", val |-> NoneV, etype |-> "", msg |-> "", run |-> NoRun]

Returned(v) == [status |-> "Returned", val |-> v, etype |-> "", msg |-> "", run |-> NoRun]

Failed(etype, msg) ==
    [status |-> "Failed", val |-> NoneV, etype |-> etype, msg |-> msg, run |-> NoRun]

\* the dictionary run_script_string returns
RunResult(success, lines_executed, outputs, error) ==
    [status |-> "Returned", val |-> [k |-> "dict", n |-> 0, s |-> ""],
     etype |-> "", msg |-> "",
     run |-> [success |-> success, lines_executed |-> lines_executed,
              outputs |-> outputs, error |-> error]]

RECURSIVE Join(_)
\* ' '.join(tokens)
Join(tokens) ==
    IF tokens = <<>> THEN ""
    ELSE IF Len(tokens) = 1 THEN tokens[1]
    ELSE tokens[1] \o " " \o Join(Tail(tokens))

(***************************************************************************)
(* PluginManager: argument substitution.                                   *)
(***************************************************************************)
convert_string_to_type(t) ==
    IF IsIntToken(t) THEN IntV(IntOfToken(t))
    ELSE IF t \in {"true", "True"} THEN BoolV(TRUE)
    ELSE IF t \in {"false", "False"} THEN BoolV(FALSE)
    ELSE StrV(t)

SubstituteArg(S, t) ==
    IF StartsWithSigil(t)
    THEN IF GetFails(S, t) THEN StrV(t) ELSE get(S, t)
    ELSE convert_string_to_type(t)

substitute_variables(S, args) == [i \in DOMAIN args |-> SubstituteArg(S, args[i])]

(***************************************************************************)
(* The built-in operations.  Each takes the store, the function registry   *)
(* and the substituted arguments and yields the new store, the new         *)
(* registry and the result.  Returned messages are written without their   *)
(* leading check mark or cross, which are not ASCII.                       *)
(***************************************************************************)
Outcome(S, F, res) == [store |-> S, functions |-> F, res |-> res]

ArgCountError(op) == Failed("TypeError", op \o "() called with a wrong number of arguments")

NoStartswith == Failed("AttributeError", "object has no attribute 'startswith'")

\* the string -> number/boolean conversion of set and persist
ConvertSetValue(v) ==
    IF v.k # "str" THEN v
    ELSE IF IsIntToken(v.s) THEN IntV(IntOfToken(v.s))
    ELSE IF v.s \in {"true", "True", "yes"} THEN BoolV(TRUE)
    ELSE IF v.s \in {"false", "False", "no"} THEN BoolV(FALSE)
    ELSE v

format_value(v) ==
    CASE v.k = "bool" -> (IF v.n = 1 THEN "true" ELSE "false")
      [] v.k \in {"int", "float"} -> PyStr(v)
      [] v.k = "str" -> "\"" \o v.s \o "\""
      [] OTHER -> v.k

NotDefinedMsg(rawname) == "Variable '$" \o StripSigil(rawname) \o "' is not defined"

SetVariableOperation(S, F, args, persistent) ==
    IF Len(args) # 2 THEN Outcome(S, F, ArgCountError("execute"))
    ELSE IF args[1].k # "str" THEN Outcome(S, F, NoStartswith)
    ELSE LET name == StripSigil(args[1].s)
             value == ConvertSetValue(args[2])
         IN  IF name = ""
             THEN Outcome(S, F, Failed("ValueError", "Variable name must be a non-empty string"))
             ELSE Outcome(set(S, name, value, persistent), F,
                          Returned(StrV("$" \o name \o " = " \o format_value(value)
                                        \o (IF persistent THEN " (persistent)" ELSE ""))))

GetVariableOperation(S, F, args) ==
    IF Len(args) # 1 THEN Outcome(S, F, ArgCountError("execute"))
    ELSE IF args[1].k # "str" THEN Outcome(S, F, NoStartswith)
    ELSE IF GetFails(S, args[1].s)
    THEN Outcome(S, F, Failed("NameError", NotDefinedMsg(args[1].s)))
    ELSE Outcome(S, F, Returned(get(S, args[1].s)))

UnsetVariableOperation(S, F, args) ==
    IF Len(args) # 1 THEN Outcome(S, F, ArgCountError("execute"))
    ELSE IF args[1].k # "str" THEN Outcome(S, F, NoStartswith)
    ELSE IF DeleteFails(S, args[1].s)
    THEN Outcome(S, F, Failed("NameError", NotDefinedMsg(args[1].s)))
    ELSE Outcome(delete(S, args[1].s), F,
                 Returned(StrV("Deleted variable $" \o StripSigil(args[1].s))))

ClearVariablesOperation(S, F, args) ==
    IF Len(args) > 1 THEN Outcome(S, F, ArgCountError("execute"))
    ELSE IF Len(args) = 1 /\ args[1].k # "str"
    THEN Outcome(S, F, Failed("AttributeError", "object has no attribute 'lower'"))
    ELSE LET include_persistent == Len(args) = 1 /\ args[1].s \in {"true", "yes", "1"}
         IN  Outcome(clear_all(S, include_persistent), F,
                     Returned(StrV(IF include_persistent
                                   THEN "Cleared all variables (including persistent)"
                                   ELSE "Cleared all session variables")))

\* float(value) succeeds in validate_number
IsNumber(v) == v.k \in {"int", "float", "bool"} \/ (v.k = "str" /\ IsIntToken(v.s))

NumberOf(v) == IF v.k = "str" THEN IntOfToken(v.s) ELSE v.n

MultiplyOperation(S, F, args) ==
    IF Len(args) # 2 THEN Outcome(S, F, ArgCountError("execute"))
    ELSE IF ~IsNumber(args[1])
    THEN Outcome(S, F, Failed("ValidationError",
                              "Invalid a: '" \o PyStr(args[1]) \o "' is not a number"))
    ELSE IF ~IsNumber(args[2])
    THEN Outcome(S, F, Failed("ValidationError",
                              "Invalid b: '" \o PyStr(args[2]) \o "' is not a number"))
    ELSE Outcome(S, F, Returned(FloatV(NumberOf(args[1]) * NumberOf(args[2]))))

RECURSIVE ParamsStr(_)
\* ', '.join(f'${p}' for p in parameters)
ParamsStr(parameters) ==
    IF parameters = <<>> THEN ""
    ELSE IF Len(parameters) = 1 THEN "$" \o parameters[1]
    ELSE "$" \o parameters[1] \o ", " \o ParamsStr(Tail(parameters))

\* positions of the '=' token among the arguments
EqualsAt(args) == {i \in DOMAIN args : args[i] = StrV("=")}

DefineFunctionOperation(S, F, args) ==
    IF Len(args) < 3
    THEN Outcome(S, F, Failed("ValueError",
                              "Function definition requires: def name param1 ... = body"))
    ELSE IF EqualsAt(args) = {}
    THEN Outcome(S, F, Failed("ValueError", "Function definition must contain '=' separator"))
    ELSE LET equals_index == Min(EqualsAt(args))
             name == PyStr(args[1])
             parameters == [i \in 1..(equals_index - 2) |-> PyStr(args[i + 1])]
             body == [i \in 1..(Len(args) - equals_index) |-> PyStr(args[equals_index + i])]
         IN  IF equals_index < 2
             THEN Outcome(S, F, Failed("ValueError", "Function name is required before '='"))
             ELSE IF body = <<>>
             THEN Outcome(S, F, Failed("ValueError", "Function body cannot be empty"))
             ELSE IF DefineFails(name)
             THEN Outcome(S, F, Failed("ValueError", DefineErrorMsg(name)))
             ELSE Outcome(S, define(F, name, parameters, body, NoneV),
                          Returned(StrV("Defined function: " \o name \o "("
                                        \o ParamsStr(parameters) \o ") = " \o Join(body))))

DeleteFunctionOperation(S, F, args) ==
    IF Len(args) # 1 THEN Outcome(S, F, ArgCountError("execute"))
    ELSE IF args[1].k # "str" \/ ~exists(F, args[1].s)
    THEN Outcome(S, F, Failed("ValueError",
                              "Function '" \o PyStr(args[1]) \o "' is not defined"))
    ELSE Outcome(S, func_delete(F, args[1].s),
                 Returned(StrV("Deleted function: " \o args[1].s)))

\* the operation of a plugin file: execute(cls, x) returns x * 2
TestOperation(S, F, args) ==
    IF Len(args) # 1 THEN Outcome(S, F, ArgCountError("execute"))
    ELSE IF args[1].k = "str" THEN Outcome(S, F, Returned(StrV(args[1].s \o args[1].s)))
    ELSE IF args[1].k = "float" THEN Outcome(S, F, Returned(FloatV(args[1].n * 2)))
    ELSE Outcome(S, F, Returned(IntV(args[1].n * 2)))

\* the operation of a plugin file: execute(cls, x) returns str(x) + str(x)
TwiceOperation(S, F, args) ==
    IF Len(args) # 1 THEN Outcome(S, F, ArgCountError("execute"))
    ELSE Outcome(S, F, Returned(StrV(PyStr(args[1]) \o PyStr(args[1]))))

\* the operation of a plugin file: execute(cls, x) returns x + 1
ValidOperation(S, F, args) ==
    IF Len(args) # 1 THEN Outcome(S, F, ArgCountError("execute"))
    ELSE IF args[1].k = "str"
    THEN Outcome(S, F, Failed("TypeError", "can only concatenate str (not \"int\") to str"))
    ELSE IF args[1].k = "float" THEN Outcome(S, F, Returned(FloatV(args[1].n + 1)))
    ELSE Outcome(S, F, Returned(IntV(args[1].n + 1)))

\* operation_class.execute(*substituted_args) for the classes that return at
\* once; a class that does not override execute runs MathOperation.execute
Execute(S, F, cls, args) ==
    CASE cls = "SetVariableOperation" -> SetVariableOperation(S, F, args, FALSE)
      [] cls = "PersistVariableOperation" -> SetVariableOperation(S, F, args, TRUE)
      [] cls = "GetVariableOperation" -> GetVariableOperation(S, F, args)
      [] cls = "UnsetVariableOperation" -> UnsetVariableOperation(S, F, args)
      [] cls = "ClearVariablesOperation" -> ClearVariablesOperation(S, F, args)
      [] cls = "MultiplyOperation" -> MultiplyOperation(S, F, args)
      [] cls = "DefineFunctionOperation" -> DefineFunctionOperation(S, F, args)
      [] cls = "DeleteFunctionOperation" -> DeleteFunctionOperation(S, F, args)
      [] cls = "TestOperation" -> TestOperation(S, F, args)
      [] cls = "TwiceOperation" -> TwiceOperation(S, F, args)
      [] cls = "ValidOperation" -> ValidOperation(S, F, args)
      [] OTHER -> Outcome(S, F, Failed("NotImplementedError",
                                       "Subclasses must implement execute method"))

(***************************************************************************)
(* PluginManager: registration and discovery.  An operation class is the   *)
(* record of its name attribute (the empty string for None or ''), its     *)
(* class name and whether it is a subclass of MathOperation.  operations   *)
(* is a function from the registered names to their classes.               *)
(***************************************************************************)
Impl(name, cls) == [name |-> name, cls |-> cls, subclass |-> TRUE]

\* a class that does not derive from MathOperation
NotAnOperation(cls) == [name |-> "", cls |-> cls, subclass |-> FALSE]

NoOperations == [name \in {} |-> Impl("", "")]

\* the exception register_operation raises for the class, "" for none
RegisterError(impl) ==
    IF ~impl.subclass THEN "TypeError"
    ELSE IF impl.name = "" THEN "ValueError"
    ELSE ""

\* register_operation that keeps the class a name was registered with first
register_operation_first_wins(ops, impl) ==
    IF RegisterError(impl) # "" \/ impl.name \in DOMAIN ops THEN ops
    ELSE [name \in (DOMAIN ops) \cup {impl.name} |->
             IF name = impl.name THEN impl ELSE ops[name]]

\* the operations after register_operation(impl), which may have raised
register_operation(ops, impl) ==
    IF RegisterError(impl) # "" THEN ops
    ELSE [name \in (DOMAIN ops) \cup {impl.name} |->
             IF name = impl.name THEN impl ELSE ops[name]]

RECURSIVE register_operations_from_module(_, _)
\* classes are a module's classes in inspect.getmembers order
register_operations_from_module(ops, classes) ==
    IF classes = <<>> THEN ops
    ELSE LET obj == Head(classes)
         IN  register_operations_from_module(
                 IF obj.subclass THEN register_operation(ops, obj) ELSE ops,
                 Tail(classes))

\* the modules of the plugins package in pkgutil.iter_modules order, each
\* with the operation classes of the model
BuiltinModules ==
    << <<Impl("multiply", "MultiplyOperation")>>,
       <<Impl("def", "DefineFunctionOperation"), Impl("undef", "DeleteFunctionOperation")>>,
       <<Impl("eval", "EvalOperation")>>,
       <<Impl("clear_vars", "ClearVariablesOperation"), Impl("get", "GetVariableOperation"),
         Impl("persist", "PersistVariableOperation"), Impl("set", "SetVariableOperation"),
         Impl("unset", "UnsetVariableOperation")>> >>

RECURSIVE load_plugins_from_module(_, _)
load_plugins_from_module(ops, modules) ==
    IF modules = <<>> THEN ops
    ELSE load_plugins_from_module(register_operations_from_module(ops, Head(modules)),
                                  Tail(modules))

\* a file of a plugin directory: its name, whether the name ends with
\* _plugin.py, what importlib.util.find_spec does for its stem ("none",
\* "raises" or "found"), whether executing it succeeds, and its classes
File(name, plugin_suffix, find_spec, import_ok, classes) ==
    [name |-> name, plugin_suffix |-> plugin_suffix, find_spec |-> find_spec,
     import_ok |-> import_ok, classes |-> classes]

\* _is_name_conflicting that lets every stem through
is_name_conflicting_never(file, origin) == FALSE

\* origin is the origin of the spec find_spec returned, when it returned one
is_name_conflicting(file, origin) ==
    IF file.find_spec = "raises" THEN FALSE
    ELSE IF file.find_spec = "none" THEN FALSE
    ELSE IF origin \in {"None", "built-in", "frozen"} THEN TRUE
    ELSE IF origin = "unresolvable" THEN TRUE
    ELSE IF origin = "project" THEN TRUE
    ELSE TRUE

RECURSIVE load_external_plugins_abort(_, _, _)
\* _load_external_plugins that gives up at the first file that fails to import
load_external_plugins_abort(D, listing, origin) ==
    IF listing = <<>> THEN D
    ELSE LET file == Head(listing)
             rest == Tail(listing)
         IN  IF file.name \in {"__init__.py", "plugin_template.py"}
             THEN load_external_plugins_abort(D, rest, origin)
             ELSE IF ~file.plugin_suffix
             THEN load_external_plugins_abort(D, rest, origin)
             ELSE IF is_name_conflicting(file, origin)
             THEN load_external_plugins_abort(D, rest, origin)
             ELSE IF ~file.import_ok
             THEN [D EXCEPT !.imported = Append(@, file.name)]
             ELSE load_external_plugins_abort(
                      [operations |-> register_operations_from_module(D.operations,
                                                                       file.classes),
                       imported |-> Append(D.imported, file.name)],
                      rest, origin)

RECURSIVE load_external_plugins(_, _, _)
\* D is the registry and the list of the files handed to
\* _import_module_from_path so far; listing is plugin_dir.glob("*.py")
load_external_plugins(D, listing, origin) ==
    IF listing = <<>> THEN D
    ELSE LET file == Head(listing)
             rest == Tail(listing)
         IN  IF file.name \in {"__init__.py", "plugin_template.py"}
             THEN load_external_plugins(D, rest, origin)
             ELSE IF ~file.plugin_suffix
             THEN load_external_plugins(D, rest, origin)
             ELSE IF is_name_conflicting(file, origin)
             THEN load_external_plugins(D, rest, origin)
             ELSE IF ~file.import_ok
             THEN load_external_plugins([D EXCEPT !.imported = Append(@, file.name)],
                                        rest, origin)
             ELSE load_external_plugins(
                      [operations |-> register_operations_from_module(D.operations,
                                                                       file.classes),
                       imported |-> Append(D.imported, file.name)],
                      rest, origin)

RECURSIVE load_plugin_dirs(_, _, _, _)
\* the loop of discover_plugins over plugin_dirs
load_plugin_dirs(D, plugin_dirs, listing, origin) ==
    IF plugin_dirs = <<>> THEN D
    ELSE load_plugin_dirs(load_external_plugins(D, listing, origin),
                          Tail(plugin_dirs), listing, origin)

discover_plugins(pm, listing, origin) ==
    load_plugin_dirs([operations |-> load_plugins_from_module(pm.operations, BuiltinModules),
                      imported |-> <<>>],
                     pm.plugin_dirs, listing, origin)

\* the registry of a PluginManager that discovered the built-in plugins only
BuiltinOperations == load_plugins_from_module(NoOperations, BuiltinModules)

(***************************************************************************)
(* Inputs of the model: the commands a top-level caller passes to          *)
(* execute_operation, the scripts it passes to run_script_string, the      *)
(* values it passes to VariableStore.set and the documents found at the    *)
(* persistence path at start-up.                                           *)
(***************************************************************************)
Commands ==
    { <<"set", "x", "1">>, <<"set", "x", "2">>, <<"set", "y", "2">>,
      <<"unset", "x">>, <<"get", "x">>,
      <<"set", "$x", "2">>, <<"unset", "$x">>, <<"get", "$x">>,
      <<"multiply", "$x", "$y">>, <<"multiply", "$x", "2">>,
      <<"def", "double", "x", "=", "multiply", "$x", "2">>,
      <<"def", "f", "=", "clear_vars">>,
      <<"def", "g", "=", "f">>,
      <<"def", "r", "=", "r">>,
      <<"double", "2">>, <<"double", "$y">>, <<"double", "1", "2">>,
      <<"f">>, <<"g">>, <<"r">>, <<"eval", "f">>, <<"nosuch">> }

Scripts ==
    { << <<"set", "x", "1">>, <<"nosuch", "1">>, <<"set", "y", "2">> >>,
      << <<"#", "comment">>, <<>>, <<"set", "y", "2">>, <<"multiply", "$y", "2">> >>,
      << <<"clear_vars">>, <<"set", "x", "1">> >>,
      << <<"eval", "clear_vars">> >>,
      << <<"set", "x", "1">>, <<"double", "2">>, <<"g">> >>,
      << <<"get", "x">>, <<"double", "1", "2">> >> }

\* the (name, value, persistent) arguments of the direct VariableStore.set calls
StoreSets ==
    { <<"x", IntV(1), FALSE>>, <<"$x", IntV(2), FALSE>>,
      <<"y", IntV(1), FALSE>>, <<"y", IntV(2), TRUE>> }

\* the names passed to the direct VariableStore.get and has calls
Queries == {"x", "$x", "y"}

LoadedDocuments == {EmptyTable, [name \in {"y"} |-> IntV(1)]}

\* the (name, value, persistent) arguments of the set calls of a caller that
\* persists values of every kind
PersistSets ==
    { <<"x", IntV(1), TRUE>>, <<"x", ObjectV, TRUE>>, <<"x", ListV(IntV(1)), TRUE>>,
      <<"y", StrV("a"), TRUE>>, <<"y", ListV(ObjectV), TRUE>>, <<"y", IntV(2), FALSE>> }

\* the files a plugin directory may hold
DoublePlugin ==
    File("double_plugin.py", TRUE, "none", TRUE, <<Impl("double", "TestOperation")>>)

TwicePlugin ==
    File("twice_plugin.py", TRUE, "raises", TRUE, <<Impl("double", "TwiceOperation")>>)

\* a file with a syntax error, meant to provide the operation broken
BrokenPlugin ==
    File("broken_plugin.py", TRUE, "none", FALSE, <<Impl("broken", "BrokenOperation")>>)

\* a file with a class that is no MathOperation, a MathOperation without a
\* name and a well-formed one
MixedPlugin ==
    File("mixed_plugin.py", TRUE, "none", TRUE,
         <<NotAnOperation("InvalidOperation"), Impl("", "NamelessOperation"),
           Impl("valid_op", "ValidOperation")>>)

\* a file whose stem is the name of an importable module
ShadowPlugin ==
    File("shadow_plugin.py", TRUE, "found", TRUE, <<Impl("set", "ShadowOperation")>>)

\* a well-formed module whose name does not end with _plugin.py
NotesFile ==
    File("notes.py", FALSE, "none", TRUE, <<Impl("notes", "NotesOperation")>>)

PluginFiles == {DoublePlugin, TwicePlugin, BrokenPlugin, MixedPlugin, ShadowPlugin, NotesFile}

\* what glob("*.py") may yield: distinct files in any order
Listings ==
    UNION { {listing \in [1..n -> PluginFiles] :
                \A i, j \in 1..n : i # j => listing[i] # listing[j]} : n \in 0..MaxFiles }

\* the origin of the module spec a colliding stem resolves to
Origins == {"built-in", "project", "site-packages"}

\* the directories passed to add_plugin_directory; only the first exists
Directories == {"user_plugins", "missing"}

is_dir(directory) == directory = "user_plugins"

\* the classes passed to register_operation directly
RegisterInputs ==
    { Impl("double", "TestOperation"), Impl("double", "TwiceOperation"),
      Impl("", "NamelessOperation"), NotAnOperation("InvalidOperation") }

\* the (name, parameters, body, description) arguments of the direct
\* FunctionRegistry.define calls; the third has the body ''
DefineInputs ==
    { <<"f", <<"x">>, <<"multiply", "$x", "2">>, StrV("doubles")>>,
      <<"f", <<"x", "y">>, <<"multiply", "$x", "$y">>, NoneV>>,
      <<"f", <<>>, <<>>, NoneV>>,
      <<"multiply", <<"x">>, <<"get", "x">>, NoneV>>,
      <<"", <<"x">>, <<"get", "x">>, NoneV>>,
      <<"2", <<"x">>, <<"get", "x">>, StrV("two")>> }

\* the names passed to FunctionRegistry.delete directly
DeleteInputs == {"f", "multiply", "g"}

\* the commands of the callers that define, redefine and delete functions
FunctionCommands ==
    { <<"f">>, <<"f", "1">>, <<"f", "1", "2">>, <<"multiply", "2", "2">>,
      <<"def", "f", "x", "=", "multiply", "$x", "2">>,
      <<"def", "2", "x", "=", "multiply", "$x", "2">>,
      <<"undef", "f">>, <<"undef", "multiply">>, <<"undef", "g">> }

\* the commands of a caller that defines functions calling one another,
\* themselves, eval and set, and calls them
NestingCommands ==
    { <<"def", "r", "=", "r">>, <<"r">>,
      <<"def", "a", "=", "b">>, <<"def", "b", "=", "a">>, <<"a">>,
      <<"def", "g", "=", "h">>, <<"def", "h", "=", "set", "x", "2">>, <<"g">>,
      <<"def", "q", "=", "eval", "q">>, <<"q">>,
      <<"def", "s", "y", "=", "set", "x", "$y">>, <<"s", "2">>, <<"s">>,
      <<"set", "x", "1">>, <<"eval", "#">>, <<"nosuch">> }

\* the command lines typed at the prompt of the interactive shell
InteractiveCommands ==
    { <<"multiply", "2", "3">>, <<"multiply", "1", "2">>, <<"multiply", "$y", "2">>,
      <<"multiply", "$", "1">>, <<"multiply", "ans", "1">>, <<"multiply", "2">>,
      <<"set", "x", "5">>, <<"get", "y">>, <<"clear_vars", "1">>, <<"nosuch", "1">> }

\* the values _generate_session_id may return
SessionIds == {"0a1b2c3d", "4e5f6a7b"}

\* the name arguments of create_session; None asks for the default name
SessionNames == {NoneV, StrV("Work"), StrV("work")}

\* the identifier arguments of load_session, rename_session and delete_session
SessionIdentifiers == SessionIds \cup {"Work", "WORK", "Session 1", "nosuch"}

\* the new_name arguments of rename_session
NewNames == {"Work", "Home"}

\* the index files found at start-up, each with the session files beside it
SessionDirectories ==
    { [index |-> EmptyIndex, files |-> {}],
      [index |-> [sessions |-> << [id |-> "0a1b2c3d", name |-> "Work"] >>,
                  last_active |-> "0a1b2c3d"],
       files |-> {"0a1b2c3d"}] }

\* the (command, result) arguments of the add_entry calls
HistoryInputs == { <<"1+1", IntV(2)>>, <<"2+2", IntV(4)>>, <<"3+3", IntV(6)>> }

\* the lists found in the history file at start-up
HistoryFiles ==
    { <<>>, <<HistoryEntry("2+2", IntV(4)), HistoryEntry("1+1", IntV(2))>> }

\* the commands of the callers that register and discover
PluginCommands ==
    { <<"def", "double", "x", "=", "multiply", "$x", "2">>,
      <<"double", "2">>, <<"double", "1", "2">>,
      <<"valid_op", "1">>, <<"broken", "1">> }

(***************************************************************************)
(* The call stack.  pre is the store the call found when it was entered;   *)
(* ran is the list of lines a run has handed to execute_line with their    *)
(* outcomes.  Both are history fields, as is the variable last, which      *)
(* describes the step taken most recently.                                 *)
(***************************************************************************)
CallFrame(op, args, pre) ==
    [k |-> "call", st |-> "Resolving", op |-> op, args |-> args, lines |-> <<>>,
     i |-> 0, outputs |-> <<>>, lines_executed |-> 0, pre |-> pre, ran |-> <<>>]

RunFrame(lines, pre) ==
    [k |-> "run", st |-> "Running", op |-> "", args |-> <<>>, lines |-> lines,
     i |-> 1, outputs |-> <<>>, lines_executed |-> 0, pre |-> pre, ran |-> <<>>]

Top == ctl[Len(ctl)]

Pop(stack) == SubSeq(stack, 1, Len(stack) - 1)

ReplaceTop(stack, frame) == [stack EXCEPT ![Len(stack)] = frame]

EmptyStore ==
    [scope_stack |-> <<>>, global_vars |-> EmptyTable,
     persistent_vars |-> EmptyTable, file |-> Document(EmptyTable)]

Event(ev, name) ==
    [ev |-> ev, name |-> name, value |-> NoneV, n |-> 0, args |-> <<>>, sargs |-> <<>>,
     lines |-> <<>>, log |-> <<>>, pre |-> EmptyStore, clean |-> FALSE,
     impl |-> Impl("", ""), files |-> <<>>, imported |-> <<>>, table |-> EmptyTable,
     prev |-> NoFunctions]

CallEvent(ev, frame) ==
    [Event(ev, frame.op) EXCEPT !.args = frame.args, !.pre = frame.pre]

Idle == ctl = <<>>

Resolving == ctl # <<>> /\ Top.k = "call" /\ Top.st = "Resolving" /\ Len(ctl) <= MaxCallDepth

\* an EvalOperation call is on the stack
InsideEval == \E i \in DOMAIN ctl : ctl[i].st = "EvalDispatch"

\* self.operations of the PluginManager that resolves the innermost call:
\* inside an eval it is the one of the ScriptRunner EvalOperation created,
\* which discovered the built-in plugins only
ActiveOperations == IF InsideEval THEN BuiltinOperations ELSE plugin_manager.operations

\* a registered name that counts only while no user function has it
ResolvesToBuiltin_unless_function ==
    Top.op \in DOMAIN ActiveOperations /\ ~exists(functions, Top.op)

\* operation_name in self.operations
ResolvesToBuiltin == Top.op \in DOMAIN ActiveOperations

\* registry.exists(operation_name), reached when the name is not registered
ResolvesToFunction == ~ResolvesToBuiltin /\ exists(functions, Top.op)

\* no HistoryManager and no SessionManager were created
NoHistory == HistoryManager(0, FALSE, <<>>)

NoSessions == SessionManager(EmptyIndex, {})

\* the state after ScriptRunner(): its PluginManager discovered the built-in
\* plugins, the variable store loaded its document, no function is defined
Init ==
    /\ \E doc \in LoadedDocuments :
          store = [scope_stack |-> <<>>, global_vars |-> EmptyTable,
                   persistent_vars |-> load_persistent_vars(Document(doc)),
                   file |-> Document(doc)]
    /\ functions = NoFunctions
    /\ plugin_manager = [operations |-> BuiltinOperations, plugin_dirs |-> <<>>]
    /\ disk = <<>>
    /\ history = NoHistory
    /\ sessions = NoSessions
    /\ last_result = NoneV
    /\ ctl = <<>>
    /\ ret = NoResult
    /\ last = Event("init", "")

(***************************************************************************)
(* Direct calls of the VariableStore methods.  last.pre is the store at    *)
(* the most recent push_scope and last.clean holds while nothing but       *)
(* non-persistent set calls followed that push_scope.                      *)
(***************************************************************************)
\* the last step was a push_scope or a set that followed one
InScenario == last.clean /\ last.ev \in {"push_scope", "set"}

StoreSet(rawname, value, persistent) ==
    /\ Idle
    /\ store' = set(store, rawname, value, persistent)
    /\ ret' = NoResult
    /\ last' = [Event("set", rawname) EXCEPT
                   !.value = value,
                   !.n = IF persistent THEN 1 ELSE 0,
                   !.clean = InScenario /\ ~persistent,
                   !.pre = IF InScenario /\ ~persistent THEN last.pre ELSE EmptyStore]
    /\ UNCHANGED <<functions, plugin_manager, disk, ctl, shell>>

StoreGet(rawname) ==
    /\ Idle
    /\ ret' = IF GetFails(store, rawname)
              THEN Failed("NameError", NotDefinedMsg(rawname))
              ELSE Returned(get(store, rawname))
    /\ last' = Event("get", rawname)
    /\ UNCHANGED <<store, functions, plugin_manager, disk, ctl, shell>>

StoreHas(rawname) ==
    /\ Idle
    /\ ret' = Returned(BoolV(has(store, rawname)))
    /\ last' = Event("has", rawname)
    /\ UNCHANGED <<store, functions, plugin_manager, disk, ctl, shell>>

\* list_all returns a new dictionary, recorded in last.table
StoreListAll ==
    /\ Idle
    /\ ret' = Returned([k |-> "dict", n |-> 0, s |-> ""])
    /\ last' = [Event("list_all", "") EXCEPT !.table = list_all(store)]
    /\ UNCHANGED <<store, functions, plugin_manager, disk, ctl, shell>>

StoreDelete(rawname) ==
    /\ Idle
    /\ store' = delete(store, rawname)
    /\ ret' = IF DeleteFails(store, rawname)
              THEN Failed("NameError", NotDefinedMsg(rawname))
              ELSE Returned(NoneV)
    /\ last' = Event("delete", rawname)
    /\ UNCHANGED <<functions, plugin_manager, disk, ctl, shell>>

StorePushScope ==
    /\ Idle
    /\ Len(store.scope_stack) < MaxScopes
    /\ store' = push_scope(store)
    /\ ret' = NoResult
    /\ last' = [Event("push_scope", "") EXCEPT !.pre = store, !.clean = TRUE]
    /\ UNCHANGED <<functions, plugin_manager, disk, ctl, shell>>

StorePopScope ==
    /\ Idle
    /\ store' = pop_scope(store)
    /\ ret' = NoResult
    /\ last' = [Event("pop_scope", IF InScenario THEN last.name ELSE "") EXCEPT
                   !.value = IF InScenario THEN last.value ELSE NoneV,
                   !.clean = InScenario,
                   !.pre = IF InScenario THEN last.pre ELSE EmptyStore]
    /\ UNCHANGED <<functions, plugin_manager, disk, ctl, shell>>

StoreClearAll(include_persistent) ==
    /\ Idle
    /\ store' = clear_all(store, include_persistent)
    /\ ret' = NoResult
    /\ last' = Event("clear_all", "")
    /\ UNCHANGED <<functions, plugin_manager, disk, ctl, shell>>

\* a later process: get_variable_store() creates the store, which loads the
\* document the earlier one left
GetVariableStore ==
    /\ Idle
    /\ store' = [scope_stack |-> <<>>, global_vars |-> EmptyTable,
                 persistent_vars |-> load_persistent_vars(store.file),
                 file |-> store.file]
    /\ ret' = NoResult
    /\ last' = [Event("get_variable_store", "") EXCEPT !.pre = store]
    /\ UNCHANGED <<functions, plugin_manager, disk, ctl, shell>>

(***************************************************************************)
(* PluginManager.execute_operation.                                        *)
(***************************************************************************)
CallExecute(cmd) ==
    /\ Idle
    /\ ctl' = <<CallFrame(cmd[1], Tail(cmd), store)>>
    /\ ret' = NoResult
    /\ last' = Event("execute_operation", cmd[1])
    /\ UNCHANGED <<store, functions, plugin_manager, disk, shell>>

\* a registered operation other than eval: substitute, execute, return
BuiltinDispatch ==
    /\ Resolving
    /\ ResolvesToBuiltin
    /\ ActiveOperations[Top.op].cls # "EvalOperation"
    /\ LET sargs == substitute_variables(store, Top.args)
           operation_class == ActiveOperations[Top.op]
           out == Execute(store, functions, operation_class.cls, sargs)
       IN  /\ store' = out.store
           /\ functions' = out.functions
           /\ ret' = out.res
           /\ last' = [CallEvent("BuiltinDispatch", Top) EXCEPT
                          !.sargs = sargs, !.impl = operation_class]
    /\ ctl' = Pop(ctl)
    /\ UNCHANGED <<plugin_manager, disk, shell>>

\* EvalOperation.execute up to the first line of run_script_string.  The
\* ScriptRunner it creates discovers the same operations and shares the
\* variable store and the function registry; its one argument is a single
\* token here, hence a script of one line.
EvalDispatch ==
    /\ Resolving
    /\ ResolvesToBuiltin
    /\ ActiveOperations[Top.op].cls = "EvalOperation"
    /\ LET sargs == substitute_variables(store, Top.args)
       IN  /\ IF Len(sargs) # 1
              THEN /\ ret' = ArgCountError("execute")
                   /\ ctl' = Pop(ctl)
                   /\ store' = store
              ELSE IF sargs[1].k # "str"
              THEN /\ ret' = Failed("AttributeError", "object has no attribute 'replace'")
                   /\ ctl' = Pop(ctl)
                   /\ store' = store
              ELSE /\ ret' = NoResult
                   /\ ctl' = Append(ReplaceTop(ctl, [Top EXCEPT !.st = "EvalDispatch"]),
                                    RunFrame(<< <<sargs[1].s>> >>, store))
                   /\ store' = push_scope(store)
           /\ last' = [CallEvent("EvalDispatch", Top) EXCEPT !.sargs = sargs]
    /\ UNCHANGED <<functions, plugin_manager, disk, shell>>

ArityMessage(name, expected, got) ==
    "Function '" \o name \o "' expects " \o IntStr(expected)
        \o " argument(s), got " \o IntStr(got)

\* bind each parameter to its argument, in order
RECURSIVE BindParameters(_, _, _)
BindParameters(S, parameters, args) ==
    IF parameters = <<>> \/ args = <<>> THEN S
    ELSE BindParameters(set(S, Head(parameters), Head(args), FALSE),
                        Tail(parameters), Tail(args))

\* the argument count checked only after the scope was pushed
ArityMismatch_after_push ==
    /\ Resolving
    /\ ResolvesToFunction
    /\ LET func == functions[Top.op]
           sargs == substitute_variables(store, Top.args)
       IN  /\ Len(sargs) # Len(func.parameters)
           /\ ret' = Failed("ValueError",
                            ArityMessage(Top.op, Len(func.parameters), Len(sargs)))
           /\ last' = [CallEvent("ArityMismatch", Top) EXCEPT !.sargs = sargs]
    /\ ctl' = Pop(ctl)
    /\ store' = push_scope(store)
    /\ UNCHANGED <<functions, plugin_manager, disk, shell>>

\* a defined user function called with the wrong number of arguments
ArityMismatch ==
    /\ Resolving
    /\ ResolvesToFunction
    /\ LET func == functions[Top.op]
           sargs == substitute_variables(store, Top.args)
       IN  /\ Len(sargs) # Len(func.parameters)
           /\ ret' = Failed("ValueError",
                            ArityMessage(Top.op, Len(func.parameters), Len(sargs)))
           /\ last' = [CallEvent("ArityMismatch", Top) EXCEPT !.sargs = sargs]
    /\ ctl' = Pop(ctl)
    /\ UNCHANGED <<store, functions, plugin_manager, disk, shell>>

\* a defined user function: push a scope, bind, start the body
FunctionDispatch ==
    /\ Resolving
    /\ ResolvesToFunction
    /\ LET func == functions[Top.op]
           sargs == substitute_variables(store, Top.args)
           bound == BindParameters(push_scope(store), func.parameters, sargs)
       IN  /\ Len(sargs) = Len(func.parameters)
           /\ IF func.body = <<>>
              THEN /\ store' = pop_scope(bound)
                   /\ ret' = Failed("ValueError", "Function '" \o Top.op \o "' has empty body")
                   /\ ctl' = Pop(ctl)
              ELSE /\ store' = bound
                   /\ ret' = NoResult
                   /\ ctl' = Append(ReplaceTop(ctl, [Top EXCEPT !.st = "FunctionDispatch"]),
                                    CallFrame(Head(func.body), Tail(func.body), bound))
           /\ last' = [CallEvent("FunctionDispatch", Top) EXCEPT !.sargs = sargs]
    /\ UNCHANGED <<functions, plugin_manager, disk, shell>>

\* the finally clause of the user-function branch
FunctionReturn ==
    /\ ctl # <<>>
    /\ Top.k = "call"
    /\ Top.st = "FunctionDispatch"
    /\ ret.status # "none"
    /\ store' = pop_scope(store)
    /\ ctl' = Pop(ctl)
    /\ last' = CallEvent("FunctionReturn", Top)
    /\ UNCHANGED <<functions, plugin_manager, disk, ret, shell>>

\* the failure raised with a scope left pushed
UnknownOperation_after_push ==
    /\ Resolving
    /\ ~ResolvesToBuiltin
    /\ ~exists(functions, Top.op)
    /\ ret' = Failed("ValueError", "Unknown operation: " \o Top.op)
    /\ ctl' = Pop(ctl)
    /\ last' = CallEvent("UnknownOperation", Top)
    /\ store' = push_scope(store)
    /\ UNCHANGED <<functions, plugin_manager, disk, shell>>

UnknownOperation ==
    /\ Resolving
    /\ ~ResolvesToBuiltin
    /\ ~exists(functions, Top.op)
    /\ ret' = Failed("ValueError", "Unknown operation: " \o Top.op)
    /\ ctl' = Pop(ctl)
    /\ last' = CallEvent("UnknownOperation", Top)
    /\ UNCHANGED <<store, functions, plugin_manager, disk, shell>>

\* the host call stack is exhausted
RecursionExhausted ==
    /\ ctl # <<>>
    /\ Top.k = "call"
    /\ Top.st = "Resolving"
    /\ Len(ctl) > MaxCallDepth
    /\ ret' = Failed("RecursionError", "maximum recursion depth exceeded")
    /\ ctl' = Pop(ctl)
    /\ last' = CallEvent("RecursionExhausted", Top)
    /\ UNCHANGED <<store, functions, plugin_manager, disk, shell>>

\* the rest of EvalOperation.execute, after run_script_string returned
EvalReturn ==
    /\ ctl # <<>>
    /\ Top.k = "call"
    /\ Top.st = "EvalDispatch"
    /\ ret.status # "none"
    /\ ret' = IF ret.run.success
              THEN IF ret.run.outputs # <<>>
                   THEN Returned(StrV(ret.run.outputs[Len(ret.run.outputs)]))
                   ELSE Returned(StrV("Script completed (no output)"))
              ELSE Returned(StrV("Script failed:\n" \o ret.run.error.s))
    /\ ctl' = Pop(ctl)
    /\ last' = CallEvent("EvalReturn", Top)
    /\ UNCHANGED <<store, functions, plugin_manager, disk, shell>>

(***************************************************************************)
(* ScriptRunner.  A line is the list of its whitespace-separated tokens;   *)
(* the empty list is a blank line.                                         *)
(***************************************************************************)
\* parse_line returns None
IsSkipped(line) == IF line = <<>> THEN TRUE ELSE Head(line) = "#"

\* the RuntimeError message of execute_line
LineError(line_number, line, etype, msg) ==
    "Error on line " \o IntStr(line_number) \o ": " \o Join(line)
        \o "\n  " \o etype \o ": " \o msg

RunEvent(ev, frame) ==
    [Event(ev, "") EXCEPT !.n = frame.i, !.lines = frame.lines,
                          !.log = frame.ran, !.pre = frame.pre]

\* run_script_string up to its first line
CallRun(script) ==
    /\ Idle
    /\ ctl' = <<RunFrame(script, store)>>
    /\ store' = push_scope(store)
    /\ ret' = NoResult
    /\ last' = Event("run_script_string", "")
    /\ UNCHANGED <<functions, plugin_manager, disk, shell>>

Running == ctl # <<>> /\ Top.k = "run"

\* a skipped line that is counted as executed
RunSkipLine_counted ==
    /\ Running
    /\ ret.status = "none"
    /\ Top.i <= Len(Top.lines)
    /\ IsSkipped(Top.lines[Top.i])
    /\ ctl' = ReplaceTop(ctl, [Top EXCEPT !.i = @ + 1, !.lines_executed = @ + 1])
    /\ last' = RunEvent("RunSkipLine", Top)
    /\ UNCHANGED <<store, functions, plugin_manager, disk, ret, shell>>

\* a blank or comment line: execute_line returns None
RunSkipLine ==
    /\ Running
    /\ ret.status = "none"
    /\ Top.i <= Len(Top.lines)
    /\ IsSkipped(Top.lines[Top.i])
    /\ ctl' = ReplaceTop(ctl, [Top EXCEPT !.i = @ + 1])
    /\ last' = RunEvent("RunSkipLine", Top)
    /\ UNCHANGED <<store, functions, plugin_manager, disk, ret, shell>>

\* execute_line hands the line to execute_operation
RunLine ==
    /\ Running
    /\ ret.status = "none"
    /\ Top.i <= Len(Top.lines)
    /\ ~IsSkipped(Top.lines[Top.i])
    /\ LET line == Top.lines[Top.i]
       IN  ctl' = Append(ctl, CallFrame(Head(line), Tail(line), store))
    /\ last' = RunEvent("RunLine", Top)
    /\ UNCHANGED <<store, functions, plugin_manager, disk, ret, shell>>

\* the line returned: collect its result and go on
RunLineReturned ==
    /\ Running
    /\ ret.status = "Returned"
    /\ LET isNone == ret.val.k = "none"
           done == [line |-> Top.i, ok |-> TRUE, out |-> PyStr(ret.val), none |-> isNone]
       IN  ctl' = ReplaceTop(ctl,
                    [Top EXCEPT !.i = @ + 1,
                                !.outputs = IF isNone THEN @ ELSE Append(@, PyStr(ret.val)),
                                !.lines_executed = IF isNone THEN @ ELSE @ + 1,
                                !.ran = Append(@, done)])
    /\ ret' = NoResult
    /\ last' = RunEvent("RunLineReturned", Top)
    /\ UNCHANGED <<store, functions, plugin_manager, disk, shell>>

\* a failing line that is recorded and skipped over
RunLineFailed_continue ==
    /\ Running
    /\ ret.status = "Failed"
    /\ ctl' = ReplaceTop(ctl,
                 [Top EXCEPT !.i = @ + 1,
                             !.ran = Append(@, [line |-> Top.i, ok |-> FALSE,
                                                out |-> ret.etype \o ": " \o ret.msg,
                                                none |-> TRUE])])
    /\ ret' = NoResult
    /\ last' = RunEvent("RunLineReturned", Top)
    /\ UNCHANGED <<store, functions, plugin_manager, disk, shell>>

\* the line raised and the run lets the exception through
RunLineFailed_raises ==
    /\ Running
    /\ ret.status = "Failed"
    /\ store' = pop_scope(store)
    /\ ctl' = Pop(ctl)
    /\ last' = [RunEvent("RunLineFailed", Top) EXCEPT
                   !.log = Append(Top.ran, [line |-> Top.i, ok |-> FALSE,
                                            out |-> ret.etype \o ": " \o ret.msg,
                                            none |-> TRUE])]
    /\ UNCHANGED <<functions, plugin_manager, disk, ret, shell>>

\* the line raised: pop the scope and return the failure
RunLineFailed ==
    /\ Running
    /\ ret.status = "Failed"
    /\ store' = pop_scope(store)
    /\ ret' = RunResult(FALSE, Top.lines_executed, Top.outputs,
                        StrV(LineError(Top.i, Top.lines[Top.i], ret.etype, ret.msg)))
    /\ ctl' = Pop(ctl)
    /\ last' = [RunEvent("RunLineFailed", Top) EXCEPT
                   !.log = Append(Top.ran, [line |-> Top.i, ok |-> FALSE,
                                            out |-> ret.etype \o ": " \o ret.msg,
                                            none |-> TRUE])]
    /\ UNCHANGED <<functions, plugin_manager, disk, shell>>

\* every line is done: pop the scope and return success
RunFinish ==
    /\ Running
    /\ ret.status = "none"
    /\ Top.i > Len(Top.lines)
    /\ store' = pop_scope(store)
    /\ ret' = RunResult(TRUE, Top.lines_executed, Top.outputs, NoneV)
    /\ ctl' = Pop(ctl)
    /\ last' = RunEvent("RunFinish", Top)
    /\ UNCHANGED <<functions, plugin_manager, disk, shell>>

(***************************************************************************)
(* Direct calls of the FunctionRegistry methods.  last.prev is the         *)
(* registry the call found.                                                *)
(***************************************************************************)
RegistryDefine(name, parameters, body, description) ==
    /\ Idle
    /\ functions' = IF DefineFails(name) THEN functions
                     ELSE define(functions, name, parameters, body, description)
    /\ ret' = IF DefineFails(name)
              THEN Failed("ValueError", DefineErrorMsg(name))
              ELSE Returned(NoneV)
    /\ last' = [Event("define", name) EXCEPT
                   !.args = parameters, !.lines = <<body>>, !.value = description,
                   !.prev = functions]
    /\ UNCHANGED <<store, plugin_manager, disk, ctl, shell>>

RegistryDelete(name) ==
    /\ Idle
    /\ functions' = IF exists(functions, name) THEN func_delete(functions, name)
                     ELSE functions
    /\ ret' = IF exists(functions, name) THEN Returned(NoneV)
              ELSE Failed("KeyError", "Function '" \o name \o "' is not defined")
    /\ last' = [Event("func_delete", name) EXCEPT !.prev = functions]
    /\ UNCHANGED <<store, plugin_manager, disk, ctl, shell>>

(***************************************************************************)
(* The interactive shell: one pass of the loop of run_interactive_mode for *)
(* a command line, given as its tokens.  The loop's HistoryManager keeps   *)
(* MaxHistory entries here in place of the default 100.                    *)
(***************************************************************************)
\* what the loop reads from get_metadata() of an operation class: the number
\* of names in its args attribute, and variadic, which get_metadata does not
\* return, so that the loop finds its default False for every class
Metadata(cls) ==
    CASE cls \in {"MultiplyOperation", "SetVariableOperation",
                  "PersistVariableOperation"} -> [args |-> 2, variadic |-> FALSE]
      [] cls \in {"GetVariableOperation", "UnsetVariableOperation",
                  "ClearVariablesOperation", "DeleteFunctionOperation",
                  "DefineFunctionOperation",
                  "EvalOperation"} -> [args |-> 1, variadic |-> FALSE]
      [] OTHER -> [args |-> 0, variadic |-> FALSE]

\* float(token) succeeds
IsFloatToken(t) == IsIntToken(t) \/ \E i \in DOMAIN Digits : t = Digits[i] \o ".0"

FloatOfToken(t) ==
    IF IsIntToken(t) THEN IntOfToken(t)
    ELSE (CHOOSE i \in DOMAIN Digits : t = Digits[i] \o ".0") - 1

\* a token after input_text.replace('$', str(result)) and after the
\* replacement of the token ans
ReplaceResult(t, result) ==
    IF t = "$" THEN PyStr(result)
    ELSE IF StartsWithSigil(t) THEN PyStr(result) \o StripSigil(t)
    ELSE IF t = "ans" THEN PyStr(result)
    ELSE t

\* the tokens parse_command splits the input into
parse_command(tokens, result) ==
    IF result = NoneV THEN tokens
    ELSE [i \in DOMAIN tokens |-> ReplaceResult(tokens[i], result)]

\* process_args returns None
ArgsRejected(meta, arg_parts) ==
    IF meta.variadic
    THEN IF meta.args > 0 /\ Len(arg_parts) = 0 THEN TRUE
         ELSE \E i \in DOMAIN arg_parts : ~IsFloatToken(arg_parts[i])
    ELSE IF Len(arg_parts) < meta.args THEN TRUE
         ELSE \E i \in 1..meta.args : ~IsFloatToken(arg_parts[i])

process_args(meta, arg_parts) ==
    [i \in 1..(IF meta.variadic THEN Len(arg_parts) ELSE meta.args) |->
        FloatV(FloatOfToken(arg_parts[i]))]

\* the state after run_interactive_mode has created its objects
InteractiveInit ==
    /\ \E doc \in LoadedDocuments :
          store = [scope_stack |-> <<>>, global_vars |-> EmptyTable,
                   persistent_vars |-> load_persistent_vars(Document(doc)),
                   file |-> Document(doc)]
    /\ functions = NoFunctions
    /\ plugin_manager = [operations |-> BuiltinOperations, plugin_dirs |-> <<>>]
    /\ disk = <<>>
    /\ history = HistoryManager(MaxHistory, TRUE, <<>>)
    /\ sessions = NoSessions
    /\ last_result = NoneV
    /\ ctl = <<>>
    /\ ret = NoResult
    /\ last = Event("init", "")

\* the command is dropped before execute_operation is called: its first
\* token is not in operations_metadata or process_args returned None
InteractiveReject(user_input) ==
    /\ Idle
    /\ LET parts == parse_command(user_input, last_result)
       IN  /\ IF parts[1] \in DOMAIN plugin_manager.operations
              THEN ArgsRejected(Metadata(plugin_manager.operations[parts[1]].cls),
                                Tail(parts))
              ELSE TRUE
           /\ last' = [Event("interactive", parts[1]) EXCEPT
                          !.lines = <<user_input>>, !.args = Tail(parts), !.pre = store]
    /\ ret' = NoResult
    /\ UNCHANGED <<store, functions, plugin_manager, disk, shell, ctl>>

\* the command reaches execute_operation with the values of process_args;
\* they are no strings, so the substitution leaves them as they are.  A
\* returned result becomes last_result and is added to the history.
InteractiveExecute(user_input) ==
    /\ Idle
    /\ LET parts == parse_command(user_input, last_result)
       IN  /\ parts[1] \in DOMAIN plugin_manager.operations
           /\ LET operation_class == plugin_manager.operations[parts[1]]
                  meta == Metadata(operation_class.cls)
              IN  /\ operation_class.cls # "EvalOperation"
                  /\ ~ArgsRejected(meta, Tail(parts))
                  /\ LET arg_values == process_args(meta, Tail(parts))
                         out == Execute(store, functions, operation_class.cls, arg_values)
                     IN  /\ store' = out.store
                         /\ functions' = out.functions
                         /\ ret' = out.res
                         /\ last_result' = IF out.res.status = "Returned"
                                           THEN out.res.val ELSE last_result
                         /\ history' = IF out.res.status = "Returned"
                                       THEN add_entry(history, Join(user_input), out.res.val)
                                       ELSE history
                         /\ last' = [Event("interactive", parts[1]) EXCEPT
                                        !.lines = <<user_input>>, !.args = Tail(parts),
                                        !.sargs = arg_values, !.pre = store,
                                        !.impl = operation_class, !.clean = TRUE]
    /\ UNCHANGED <<plugin_manager, disk, sessions, ctl>>

(***************************************************************************)
(* Direct calls of the HistoryManager methods.                             *)
(***************************************************************************)
\* the state after HistoryManager(max_entries, persistent, history_file)
HistoryInit ==
    /\ store = EmptyStore
    /\ functions = NoFunctions
    /\ plugin_manager = [operations |-> NoOperations, plugin_dirs |-> <<>>]
    /\ disk = <<>>
    /\ \E max_entries \in 0..MaxHistory, persistent \in BOOLEAN, file \in HistoryFiles :
          history = HistoryManager(max_entries, persistent, file)
    /\ sessions = NoSessions
    /\ last_result = NoneV
    /\ ctl = <<>>
    /\ ret = NoResult
    /\ last = Event("init", "")

HistoryAddEntry(command, result) ==
    /\ history' = add_entry(history, command, result)
    /\ ret' = Returned(NoneV)
    /\ last' = [Event("add_entry", command) EXCEPT !.value = result]
    /\ UNCHANGED <<store, functions, plugin_manager, disk, sessions, last_result, ctl>>

\* the entry returned is recorded in last.name and last.value
HistoryGetEntry(index) ==
    /\ ret' = IF GetEntryIsNone(history, index) THEN Returned(NoneV)
              ELSE Returned([k |-> "dict", n |-> 0, s |-> ""])
    /\ last' = IF GetEntryIsNone(history, index)
               THEN [Event("get_entry", "") EXCEPT !.n = index]
               ELSE [Event("get_entry", get_entry(history, index).command) EXCEPT
                        !.n = index, !.value = get_entry(history, index).result]
    /\ UNCHANGED <<store, functions, plugin_manager, disk, shell, ctl>>

HistoryClear ==
    /\ history' = history_clear(history)
    /\ ret' = Returned(NoneV)
    /\ last' = Event("clear", "")
    /\ UNCHANGED <<store, functions, plugin_manager, disk, sessions, last_result, ctl>>

(***************************************************************************)
(* Direct calls of the SessionManager methods.  last.name is the           *)
(* identifier passed and last.clean whether the file operation of the call *)
(* could be done.                                                          *)
(***************************************************************************)
\* the state after SessionManager(config_dir)
SessionInit ==
    /\ store = EmptyStore
    /\ functions = NoFunctions
    /\ plugin_manager = [operations |-> NoOperations, plugin_dirs |-> <<>>]
    /\ disk = <<>>
    /\ history = NoHistory
    /\ \E dir \in SessionDirectories : sessions = SessionManager(dir.index, dir.files)
    /\ last_result = NoneV
    /\ ctl = <<>>
    /\ ret = NoResult
    /\ last = Event("init", "")

SessionCreate(session_id, name, written) ==
    /\ sessions' = create_session(sessions, session_id, name, written)
    /\ ret' = IF written THEN Returned(StrV(session_id)) ELSE Returned(NoneV)
    /\ last' = [Event("create_session", session_id) EXCEPT
                   !.value = name, !.clean = written]
    /\ UNCHANGED <<store, functions, plugin_manager, disk, history, last_result, ctl>>

SessionLoad(identifier) ==
    /\ sessions' = load_session(sessions, identifier)
    /\ ret' = IF LoadFails(sessions, identifier) THEN Returned(NoneV)
              ELSE Returned([k |-> "dict", n |-> 0, s |-> FindSession(sessions, identifier)])
    /\ last' = [Event("load_session", identifier) EXCEPT !.clean = TRUE]
    /\ UNCHANGED <<store, functions, plugin_manager, disk, history, last_result, ctl>>

SessionRename(identifier, new_name) ==
    /\ sessions' = rename_session(sessions, identifier, new_name)
    /\ ret' = Returned(BoolV(FindSession(sessions, identifier) # ""))
    /\ last' = [Event("rename_session", identifier) EXCEPT
                   !.value = StrV(new_name), !.clean = TRUE]
    /\ UNCHANGED <<store, functions, plugin_manager, disk, history, last_result, ctl>>

SessionDelete(identifier, unlinked) ==
    /\ sessions' = delete_session(sessions, identifier, unlinked)
    /\ ret' = Returned(BoolV(~DeleteRefused(sessions, identifier, unlinked)))
    /\ last' = [Event("delete_session", identifier) EXCEPT !.clean = unlinked]
    /\ UNCHANGED <<store, functions, plugin_manager, disk, history, last_result, ctl>>

(***************************************************************************)
(* Direct calls of the PluginManager methods that fill the registry.       *)
(***************************************************************************)
\* the state after PluginManager(): nothing registered, no plugin directory
\* added; the user's plugin directory holds any of the listings
PluginInit ==
    /\ \E doc \in LoadedDocuments :
          store = [scope_stack |-> <<>>, global_vars |-> EmptyTable,
                   persistent_vars |-> load_persistent_vars(Document(doc)),
                   file |-> Document(doc)]
    /\ functions = NoFunctions
    /\ plugin_manager = [operations |-> NoOperations, plugin_dirs |-> <<>>]
    /\ disk \in Listings
    /\ history = NoHistory
    /\ sessions = NoSessions
    /\ last_result = NoneV
    /\ ctl = <<>>
    /\ ret = NoResult
    /\ last = Event("init", "")

RegisterOperation(operation_class) ==
    /\ Idle
    /\ plugin_manager' = [plugin_manager EXCEPT
                             !.operations = register_operation(@, operation_class)]
    /\ ret' = IF RegisterError(operation_class) = "TypeError"
              THEN Failed("TypeError", operation_class.cls
                                          \o " is not a subclass of MathOperation")
              ELSE IF RegisterError(operation_class) = "ValueError"
              THEN Failed("ValueError", "Operation " \o operation_class.cls
                                           \o " does not have a name")
              ELSE Returned(NoneV)
    /\ last' = [Event("register_operation", operation_class.name) EXCEPT
                   !.impl = operation_class]
    /\ UNCHANGED <<store, functions, disk, ctl, shell>>

AddPluginDirectory(directory) ==
    /\ Idle
    /\ plugin_manager' =
          IF (\A i \in DOMAIN plugin_manager.plugin_dirs :
                 plugin_manager.plugin_dirs[i] # directory) /\ is_dir(directory)
          THEN [plugin_manager EXCEPT !.plugin_dirs = Append(@, directory)]
          ELSE plugin_manager
    /\ ret' = Returned(NoneV)
    /\ last' = Event("add_plugin_directory", directory)
    /\ UNCHANGED <<store, functions, disk, ctl, shell>>

\* discover_plugins; origin matters only when a stem of the listing resolves
DiscoverPlugins(origin) ==
    /\ Idle
    /\ (\A i \in DOMAIN disk : disk[i].find_spec # "found") \/ plugin_manager.plugin_dirs = <<>>
          => origin = "built-in"
    /\ LET D == discover_plugins(plugin_manager, disk, origin)
       IN  /\ plugin_manager' = [plugin_manager EXCEPT !.operations = D.operations]
           /\ last' = [Event("discover_plugins", "") EXCEPT
                          !.files = IF plugin_manager.plugin_dirs = <<>> THEN <<>> ELSE disk,
                          !.imported = D.imported]
    /\ ret' = Returned(NoneV)
    /\ UNCHANGED <<store, functions, disk, ctl, shell>>

Next ==
    \/ \E cmd \in Commands : CallExecute(cmd)
    \/ BuiltinDispatch
    \/ EvalDispatch
    \/ ArityMismatch
    \/ FunctionDispatch
    \/ FunctionReturn
    \/ UnknownOperation
    \/ RecursionExhausted
    \/ EvalReturn
    \/ \E script \in Scripts : CallRun(script)
    \/ RunSkipLine
    \/ RunLine
    \/ RunLineReturned
    \/ RunLineFailed
    \/ RunFinish

\* the engine: execute_operation and run_script_string calls
Spec == Init /\ [][Next]_vars

StoreNext ==
    \/ \E a \in StoreSets : StoreSet(a[1], a[2], a[3])
    \/ \E name \in Queries : StoreGet(name)
    \/ \E name \in Queries : StoreHas(name)
    \/ StoreListAll
    \/ \E name \in Names : StoreDelete(name)
    \/ StorePushScope
    \/ StorePopScope
    \/ \E include_persistent \in BOOLEAN : StoreClearAll(include_persistent)

\* the VariableStore used directly
StoreSpec == Init /\ [][StoreNext]_vars

PersistNext ==
    \/ \E a \in PersistSets : StoreSet(a[1], a[2], a[3])
    \/ \E name \in Names : StoreGet(name)
    \/ \E name \in Names : StoreDelete(name)
    \/ \E include_persistent \in BOOLEAN : StoreClearAll(include_persistent)
    \/ GetVariableStore

\* the VariableStore of a caller that persists variables, across processes
PersistSpec == Init /\ [][PersistNext]_vars

NestingNext ==
    \/ \E cmd \in NestingCommands : CallExecute(cmd)
    \/ BuiltinDispatch
    \/ EvalDispatch
    \/ ArityMismatch
    \/ FunctionDispatch
    \/ FunctionReturn
    \/ UnknownOperation
    \/ RecursionExhausted
    \/ EvalReturn
    \/ RunSkipLine
    \/ RunLine
    \/ RunLineReturned
    \/ RunLineFailed
    \/ RunFinish

\* execute_operation calls on user functions that nest and recurse
NestingSpec == Init /\ [][NestingNext]_vars

FunctionNext ==
    \/ \E d \in DefineInputs : RegistryDefine(d[1], d[2], d[3], d[4])
    \/ \E name \in DeleteInputs : RegistryDelete(name)
    \/ \E cmd \in FunctionCommands : CallExecute(cmd)
    \/ BuiltinDispatch
    \/ ArityMismatch
    \/ FunctionDispatch
    \/ FunctionReturn
    \/ UnknownOperation

\* the FunctionRegistry used directly and through def, undef and calls
FunctionSpec == Init /\ [][FunctionNext]_vars

InteractiveNext ==
    \/ \E user_input \in InteractiveCommands : InteractiveReject(user_input)
    \/ \E user_input \in InteractiveCommands : InteractiveExecute(user_input)

\* the interactive shell
InteractiveSpec == InteractiveInit /\ [][InteractiveNext]_vars

SessionNext ==
    \/ \E session_id \in SessionIds, name \in SessionNames, written \in BOOLEAN :
          SessionCreate(session_id, name, written)
    \/ \E identifier \in SessionIdentifiers : SessionLoad(identifier)
    \/ \E identifier \in SessionIdentifiers, new_name \in NewNames :
          SessionRename(identifier, new_name)
    \/ \E identifier \in SessionIdentifiers, unlinked \in BOOLEAN :
          SessionDelete(identifier, unlinked)

\* a SessionManager used directly
SessionSpec == SessionInit /\ [][SessionNext]_vars

HistoryNext ==
    \/ \E a \in HistoryInputs : HistoryAddEntry(a[1], a[2])
    \/ \E index \in -1..(MaxHistory + 1) : HistoryGetEntry(index)
    \/ HistoryClear

\* a HistoryManager used directly
HistorySpec == HistoryInit /\ [][HistoryNext]_vars

PluginNext ==
    \/ \E operation_class \in RegisterInputs : RegisterOperation(operation_class)
    \/ \E directory \in Directories : AddPluginDirectory(directory)
    \/ \E origin \in Origins : DiscoverPlugins(origin)
    \/ \E cmd \in PluginCommands : CallExecute(cmd)
    \/ BuiltinDispatch
    \/ ArityMismatch
    \/ FunctionDispatch
    \/ FunctionReturn
    \/ UnknownOperation

\* a PluginManager that is filled by register_operation and discover_plugins
\* and then executes
PluginSpec == PluginInit /\ [][PluginNext]_vars

(***************************************************************************)
(* Properties.                                                             *)
(***************************************************************************)
\* a call of a user function has just reached Returned or Failed
FunctionCallEnded == last.ev \in {"FunctionReturn", "ArityMismatch"}

\* run_script_string has just returned
RunEnded == last.ev \in {"RunLineFailed", "RunFinish"}

\* C1: when an execute_operation call that dispatched to a user function
\* reaches Returned or Failed, the scope stack is the one the call found at
\* entry: same depth, same caller frames, whatever the body executed.
C1_ScopeStackRestored ==
    FunctionCallEnded => store.scope_stack = last.pre.scope_stack

\* C2: when run returns, on any exit path, the scope stack has the depth it
\* had before the run and every frame of the caller is still there.
C2_RunScopeBalanced ==
    RunEnded => store.scope_stack = last.pre.scope_stack

\* names assigned by a `set` line of the script
SetNames(lines) ==
    {name \in Names : \E i \in DOMAIN lines :
        /\ Len(lines[i]) = 3
        /\ lines[i][1] = "set"
        /\ StripSigil(lines[i][2]) = name}

\* get and has answer alike for name in the stores S and T
SameAnswer(S, T, name) ==
    /\ has(S, name) = has(T, name)
    /\ GetFails(S, name) = GetFails(T, name)
    /\ ~GetFails(S, name) /\ ~GetFails(T, name) => get(S, name) = get(T, name)

\* C3: after run returns, succeeded or failed, every name a `set` line of
\* the script assigned gives the caller the same get and has answers as
\* before the run.
C3_SetDoesNotLeak ==
    RunEnded => \A name \in SetNames(last.lines) : SameAnswer(store, last.pre, name)

\* C4: a non-persistent set after push_scope writes only the new innermost
\* frame and get returns the inner value while the scope is active; after
\* the matching pop_scope get and has answer as they did before the push.
C4_ScopeIsolation ==
    /\ last.ev = "set" /\ last.clean =>
          /\ ~GetFails(store, last.name)
          /\ get(store, last.name) = last.value
          /\ store.global_vars = last.pre.global_vars
          /\ store.persistent_vars = last.pre.persistent_vars
          /\ Len(store.scope_stack) = Len(last.pre.scope_stack) + 1
          /\ \A i \in DOMAIN last.pre.scope_stack :
                store.scope_stack[i] = last.pre.scope_stack[i]
    /\ last.ev = "pop_scope" /\ last.clean =>
          \A name \in Names : SameAnswer(store, last.pre, name)

\* push_scope, a set that shadows an outer binding with another value, pop_scope
C4_Witness ==
    /\ last.ev = "pop_scope"
    /\ last.clean
    /\ last.name \in Names
    /\ ~GetFails(store, last.name)
    /\ get(store, last.name) # last.value

\* C5: once `def double x = multiply $x 2` was executed, the stored body is
\* the tokens after `=` with `$x` kept, and `double a` returns what
\* `multiply a 2` returns in the store of the call.
C5_DoubleIsMultiplyByTwo ==
    /\ exists(functions, "double") =>
          functions["double"] = UserFunction(<<"x">>, <<"multiply", "$x", "2">>, NoneV)
    /\ last.ev = "FunctionReturn" /\ last.name = "double" =>
          ret = Execute(last.pre, functions, "MultiplyOperation",
                        substitute_variables(last.pre, last.args \o <<"2">>)).res

\* the value a `$name` token stands for in store S: the innermost frame's,
\* else the global table's, else the persistent table's; the token itself
\* when nothing binds name
Resolved(S, token) ==
    LET name == CHOOSE m \in Names : token = "$" \o m
        visible == list_all(S)
    IN  IF name \in DOMAIN visible THEN visible[name] ELSE StrV(token)

Dispatched == last.ev \in {"BuiltinDispatch", "EvalDispatch", "FunctionDispatch", "ArityMismatch"}

\* C6: the arguments handed to a built-in or bound to the parameters of a
\* user function have every `$` token replaced by the value of the
\* variable at execution time, innermost scope first; a `$` token of an
\* undefined variable is handed over unchanged; multiply of two
\* substituted numbers returns their product.
C6_Substitution ==
    /\ Dispatched =>
          /\ Len(last.sargs) = Len(last.args)
          /\ \A i \in DOMAIN last.args :
                (\E m \in Names : last.args[i] = "$" \o m) =>
                    last.sargs[i] = Resolved(last.pre, last.args[i])
    /\ last.ev = "FunctionDispatch" /\ ctl # <<>> /\ Top.st = "Resolving" =>
          LET parameters == functions[last.name].parameters
          IN  \A i \in DOMAIN parameters :
                  (\E m \in Names : last.args[i] = "$" \o m)
                      /\ (\A j \in DOMAIN parameters : j > i => parameters[j] # parameters[i])
                  => store.scope_stack[Len(store.scope_stack)][parameters[i]]
                         = Resolved(last.pre, last.args[i])
    /\ last.ev = "BuiltinDispatch" /\ last.name = "multiply" /\ Len(last.args) = 2
         /\ (\A i \in 1..2 : \E m \in Names : last.args[i] = "$" \o m)
         /\ (\A i \in 1..2 : Resolved(last.pre, last.args[i]).k = "int") =>
          /\ ret.status = "Returned"
          /\ ret.val.n = Resolved(last.pre, last.args[1]).n * Resolved(last.pre, last.args[2]).n

\* multiply $x 2 inside a user function whose parameter x shadows another x
C6_Witness ==
    /\ last.ev = "BuiltinDispatch"
    /\ last.name = "multiply"
    /\ last.args = <<"$x", "2">>
    /\ Cardinality(FramesWith(last.pre, "x")) = 2
    /\ last.pre.scope_stack[1]["x"] # last.pre.scope_stack[2]["x"]
    /\ last.sargs[1] = last.pre.scope_stack[2]["x"]
    /\ ret.status = "Returned"

\* C7: a user function called with the wrong number of arguments fails with
\* a message that states the expected and the received count, and leaves
\* the variable store as it was; called with the declared number of
\* arguments it goes on to execute its body in a new scope.
C7_ArityMismatch ==
    /\ last.ev = "ArityMismatch" =>
          /\ ret.status = "Failed"
          /\ ret.etype = "ValueError"
          /\ Len(last.args) # Len(functions[last.name].parameters)
          /\ ret.msg = "Function '" \o last.name \o "' expects "
                          \o IntStr(Len(functions[last.name].parameters))
                          \o " argument(s), got " \o IntStr(Len(last.args))
          /\ store = last.pre
    /\ last.ev = "FunctionDispatch" =>
          /\ Len(last.args) = Len(functions[last.name].parameters)
          /\ functions[last.name].body # <<>> =>
                /\ Top.op = Head(functions[last.name].body)
                /\ Top.args = Tail(functions[last.name].body)
                /\ Len(store.scope_stack) = Len(last.pre.scope_stack) + 1

\* double, declared with one parameter, called with two arguments
C7_Witness ==
    /\ last.ev = "ArityMismatch"
    /\ last.name = "double"
    /\ Len(last.args) = 2
    /\ ret.status = "Failed"

NotNone(entry) == ~entry.none

\* the lines of 1..n that are neither blank nor comments
Executable(lines, n) == {i \in 1..n : i \in DOMAIN lines /\ ~IsSkipped(lines[i])}

\* C8: run executes the lines in order and returns at the first failing
\* line: every line before it succeeded, no line after it was executed,
\* success is false, outputs are the results of the lines before it and
\* error holds the number and the text of the failing line.
C8_StopAtFirstFailure ==
    RunEnded =>
       LET log == last.log
           lines == last.lines
           before == SubSeq(log, 1, Len(log) - 1)
           results == SelectSeq(before, NotNone)
       IN  /\ \A j \in 1..(Len(log) - 1) : log[j].ok /\ log[j].line < log[j + 1].line
           /\ IF last.ev = "RunLineFailed"
              THEN /\ log # <<>>
                   /\ ~log[Len(log)].ok
                   /\ log[Len(log)].line = last.n
                   /\ {log[j].line : j \in DOMAIN log} = Executable(lines, last.n)
                   /\ ret.run.success = FALSE
                   /\ ret.run.outputs = [j \in DOMAIN results |-> results[j].out]
                   /\ ret.run.error.s = "Error on line " \o IntStr(last.n) \o ": "
                                           \o Join(lines[last.n]) \o "\n  "
                                           \o log[Len(log)].out
              ELSE /\ \A j \in DOMAIN log : log[j].ok
                   /\ {log[j].line : j \in DOMAIN log} = Executable(lines, Len(lines))
                   /\ ret.run.success = TRUE

\* a three-line script whose second line fails after the first gave output
C8_Witness ==
    /\ last.ev = "RunLineFailed"
    /\ last.n = 2
    /\ Len(last.lines) = 3
    /\ ret.run.outputs = <<"$x = 1">>
    /\ ret.run.success = FALSE

\* number of tiers (scope frames, global table, persistent table) binding name
BindingCount(S, name) ==
    Cardinality(FramesWith(S, name))
        + (IF name \in DOMAIN S.global_vars THEN 1 ELSE 0)
        + (IF name \in DOMAIN S.persistent_vars THEN 1 ELSE 0)

\* C9 as stated: after a successful delete(v), has(v) is false and get(v)
\* fails, in every store state.
C9_DeleteHides ==
    last.ev = "delete" /\ ret.status = "Returned" =>
        ~has(store, last.name) /\ GetFails(store, last.name)

\* C9 amended: after a successful delete(v) of a v that exactly one tier
\* bound, has(v) is false and get(v) fails.
C9_DeleteHidesSingleBinding ==
    [][last'.ev = "delete" /\ ret'.status = "Returned"
          /\ BindingCount(store, last'.name) = 1
       => ~has(store', last'.name) /\ GetFails(store', last'.name)]_vars

\* a successful delete after which the name is undefined
C9_Witness ==
    /\ last.ev = "delete"
    /\ ret.status = "Returned"
    /\ BindingCount(store, last.name) = 0
    /\ store.scope_stack # <<>>

\* the store S without the binding get(name) returns
WithoutFirstTier(S, name) ==
    IF FramesWith(S, name) # {}
    THEN [S EXCEPT !.scope_stack[Max(FramesWith(S, name))] = Unbind(@, name)]
    ELSE IF name \in DOMAIN S.global_vars
    THEN [S EXCEPT !.global_vars = Unbind(@, name)]
    ELSE [S EXCEPT !.persistent_vars = Unbind(@, name)]

\* C10: delete(name) removes the binding get(name) would have returned and
\* leaves every other tier unchanged; it fails only when has(name) is
\* false, and then changes nothing.
C10_DeleteFirstTier ==
    [][last'.ev = "delete" =>
          LET name == last'.name
              expected == WithoutFirstTier(store, name)
          IN  /\ (ret'.status = "Failed") <=> ~has(store, name)
              /\ ~has(store, name) => store' = store
              /\ has(store, name) =>
                    /\ store'.scope_stack = expected.scope_stack
                    /\ store'.global_vars = expected.global_vars
                    /\ store'.persistent_vars = expected.persistent_vars]_vars

\* the bare name a raw name stands for
Bare(rawname) == CHOOSE name \in Names : rawname \in {name, "$" \o name}

\* the frames of S that hold name
Holders(S, name) == {i \in DOMAIN S.scope_stack : name \in DOMAIN S.scope_stack[i]}

\* C11: get(name) returns the binding of the innermost scope frame that
\* holds name, else the global table's, else the persistent table's, and
\* fails with NameError only when none holds it; has(name) is true exactly
\* when get(name) would succeed; neither get nor has changes the store.
C11_GetResolves ==
    [][/\ last'.ev = "get" =>
             LET name == Bare(last'.name)
                 holders == Holders(store, name)
             IN  /\ store' = store
                 /\ IF holders # {}
                    THEN \E i \in holders :
                            /\ \A j \in holders : j <= i
                            /\ ret' = Returned(store.scope_stack[i][name])
                    ELSE IF name \in DOMAIN store.global_vars
                    THEN ret' = Returned(store.global_vars[name])
                    ELSE IF name \in DOMAIN store.persistent_vars
                    THEN ret' = Returned(store.persistent_vars[name])
                    ELSE ret'.status = "Failed" /\ ret'.etype = "NameError"
       /\ last'.ev = "has" =>
             LET name == Bare(last'.name)
                 held == \/ Holders(store, name) # {}
                         \/ name \in DOMAIN store.global_vars
                         \/ name \in DOMAIN store.persistent_vars
             IN  /\ store' = store
                 /\ ret' = Returned(BoolV(held))]_vars

\* get of a name that two frames, the global table and the persistent table
\* bind, the two frames to different values: the innermost frame's is returned
C11_Witness ==
    /\ last.ev = "get"
    /\ ret.status = "Returned"
    /\ Len(store.scope_stack) = 2
    /\ Holders(store, Bare(last.name)) = {1, 2}
    /\ store.scope_stack[1][Bare(last.name)] # store.scope_stack[2][Bare(last.name)]
    /\ Bare(last.name) \in DOMAIN store.global_vars
    /\ Bare(last.name) \in DOMAIN store.persistent_vars
    /\ ret.val = store.scope_stack[2][Bare(last.name)]

\* C12: after set(v, x), v given with or without the leading '$', get(v)
\* returns x and has(v) is true, queried with or without the '$'; the
\* write goes to the innermost active scope, or to the global table when
\* no scope is active, and to nothing else of the session tables.
C12_SetThenGet ==
    [][last'.ev = "set" =>
          LET name == Bare(last'.name)
              x == last'.value
              depth == Len(store.scope_stack)
          IN  /\ \A raw \in {name, "$" \o name} :
                    /\ ~GetFails(store', raw)
                    /\ get(store', raw) = x
                    /\ has(store', raw)
              /\ Len(store'.scope_stack) = depth
              /\ IF depth > 0
                 THEN /\ store'.scope_stack[depth] = Bind(store.scope_stack[depth], name, x)
                      /\ \A i \in 1..(depth - 1) :
                            store'.scope_stack[i] = store.scope_stack[i]
                      /\ store'.global_vars = store.global_vars
                 ELSE store'.global_vars = Bind(store.global_vars, name, x)]_vars

\* set of `$x` inside a scope while the global table binds x to another value
C12_Witness ==
    /\ last.ev = "set"
    /\ last.name = "$x"
    /\ store.scope_stack # <<>>
    /\ "x" \in DOMAIN store.global_vars
    /\ store.global_vars["x"] # last.value
    /\ get(store, "x") = last.value
    /\ has(store, "$x")

\* C13: a call whose name is both a registered operation and a defined user
\* function is executed by the registered class on the substituted
\* arguments, whichever of the registration and the definition came first:
\* it never takes the user-function branch (no scope pushed, no arity error).
C13_BuiltinFirst ==
    [][(/\ ctl # <<>>
        /\ Top.k = "call"
        /\ Top.st = "Resolving"
        /\ Top.op \in DOMAIN plugin_manager.operations
        /\ exists(functions, Top.op))
       => /\ last'.ev = "BuiltinDispatch"
          /\ last'.impl = plugin_manager.operations[Top.op]
          /\ ret' = Execute(store, functions, plugin_manager.operations[Top.op].cls,
                            substitute_variables(store, Top.args)).res
          /\ store'.scope_stack = store.scope_stack
          /\ ctl' = Pop(ctl)]_vars

\* `double 2` executed by the plugin class while a user function double exists
C13_Witness ==
    /\ last.ev = "BuiltinDispatch"
    /\ last.name = "double"
    /\ last.args = <<"2">>
    /\ exists(functions, "double")
    /\ last.impl.cls = "TestOperation"
    /\ ret = Returned(IntV(4))

\* C14 as stated: set, get and unset executed with `$x` have the effect and
\* the result they have with `x`, in every store state.
C14_SigilAccepted ==
    /\ last.ev = "BuiltinDispatch"
    /\ last.name \in {"set", "get", "unset"}
    /\ last.args # <<>>
    => (StartsWithSigil(last.args[1]) =>
          LET bare == [last.args EXCEPT ![1] = StripSigil(@)]
              expected == Execute(last.pre, functions, last.impl.cls,
                                  substitute_variables(last.pre, bare))
          IN  store = expected.store /\ ret = expected.res)

\* C15: run never lets the failure of a line through: it always returns a
\* result; success is false and error a non-empty message when a line
\* failed, success is true and error is None when every line succeeded.
C15_RunReturnsResult ==
    RunEnded =>
        /\ ret.status = "Returned"
        /\ ret.val.k = "dict"
        /\ IF \E j \in DOMAIN last.log : ~last.log[j].ok
           THEN /\ ret.run.success = FALSE
                /\ ret.run.error.k = "str"
                /\ ret.run.error.s # ""
           ELSE /\ ret.run.success = TRUE
                /\ ret.run.error = NoneV

\* a run that stopped at `get x` with x undefined
C15_Witness ==
    /\ last.ev = "RunLineFailed"
    /\ last.lines[last.n] = <<"get", "x">>
    /\ ret.status = "Returned"
    /\ ret.run.success = FALSE
    /\ ret.run.error = StrV("Error on line 1: get x\n  NameError: Variable '$x' is not defined")

Loadable(file) ==
    /\ file.plugin_suffix
    /\ file.name \notin {"__init__.py", "plugin_template.py"}
    /\ file.find_spec # "found"
    /\ file.import_ok

\* a class register_operation accepts
WellFormed(c) == c.subclass /\ c.name # ""

ClassesOf(file) == {file.classes[k] : k \in DOMAIN file.classes}

C18_CollidingStemSkipped ==
    LET ops == plugin_manager.operations
    IN  /\ \A file \in PluginFiles :
              file.find_spec = "found" =>
                  \A n \in DOMAIN ops : ops[n] \notin ClassesOf(file)
        /\ last.ev = "discover_plugins" =>
              \A i \in DOMAIN last.files :
                  last.files[i].find_spec = "found" =>
                      /\ \A k \in DOMAIN last.imported :
                            last.imported[k] # last.files[i].name
                      /\ \A j \in DOMAIN last.files :
                            j > i /\ Loadable(last.files[j]) =>
                               /\ \E k \in DOMAIN last.imported :
                                     last.imported[k] = last.files[j].name
                               /\ \A c \in ClassesOf(last.files[j]) :
                                     WellFormed(c) => c.name \in DOMAIN ops

\* the colliding file, which declares an operation named set, is scanned
\* before a loadable file
C18_Witness ==
    /\ last.ev = "discover_plugins"
    /\ last.files = <<ShadowPlugin, DoublePlugin>>
    /\ last.imported = <<"double_plugin.py">>
    /\ plugin_manager.operations["set"].cls = "SetVariableOperation"
    /\ plugin_manager.operations["double"].cls = "TestOperation"

RECURSIVE Flatten(_)
Flatten(seqs) == IF seqs = <<>> THEN <<>> ELSE Head(seqs) \o Flatten(Tail(seqs))

\* the classes a discovery over listing registers, in order
Registrations(listing) ==
    SelectSeq(Flatten(BuiltinModules)
                  \o Flatten([i \in DOMAIN listing |->
                                 IF Loadable(listing[i]) THEN listing[i].classes ELSE <<>>]),
              WellFormed)

\* the last class of regs with the name n
LastWith(regs, n) ==
    regs[CHOOSE i \in DOMAIN regs :
            /\ regs[i].name = n
            /\ \A j \in DOMAIN regs : regs[j].name = n => j <= i]

\* C19: every registry key n maps to a class whose name is n; a register
\* with a non-empty name makes its class the one registered under that
\* name and changes no other key; a register with an empty name fails and
\* leaves the registry unchanged; after a discovery every name it
\* registered maps to the class registered last under it.
C19_LastRegistrationWins ==
    [][plugin_manager' # plugin_manager
          \/ last'.ev \in {"register_operation", "discover_plugins"} =>
       LET ops == plugin_manager.operations
           after == plugin_manager'.operations
       IN  /\ \A n \in DOMAIN after : after[n].name = n /\ n # ""
           /\ last'.ev = "register_operation" =>
                 LET c == last'.impl
                 IN  IF c.subclass /\ c.name # ""
                     THEN /\ ret'.status = "Returned"
                          /\ DOMAIN after = (DOMAIN ops) \cup {c.name}
                          /\ after[c.name] = c
                          /\ \A n \in (DOMAIN ops) \ {c.name} : after[n] = ops[n]
                     ELSE /\ ret'.status = "Failed"
                          /\ after = ops
           /\ last'.ev = "discover_plugins" =>
                 \A regs \in {Registrations(last'.files)} :
                     LET names == {regs[i].name : i \in DOMAIN regs}
                     IN  /\ DOMAIN after = (DOMAIN ops) \cup names
                         /\ \A n \in names : after[n] = LastWith(regs, n)
                         /\ \A n \in (DOMAIN ops) \ names : after[n] = ops[n]]_vars

\* two files declare the name double: the one scanned second is active
C19_Witness ==
    /\ last.ev = "discover_plugins"
    /\ last.files = <<DoublePlugin, TwicePlugin>>
    /\ plugin_manager.operations["double"] = Impl("double", "TwiceOperation")

\* C20: a call whose name is neither registered nor a defined user function
\* fails with "Unknown operation" and leaves the variable store, the
\* function registry and the operation registry unchanged.
C20_UnknownOperationChangesNothing ==
    [][(/\ ctl # <<>>
        /\ Top.k = "call"
        /\ Top.st = "Resolving"
        /\ Len(ctl) <= MaxCallDepth
        /\ Top.op \notin DOMAIN ActiveOperations
        /\ ~exists(functions, Top.op))
       => /\ last'.ev = "UnknownOperation"
          /\ ret' = Failed("ValueError", "Unknown operation: " \o Top.op)
          /\ store' = store
          /\ functions' = functions
          /\ plugin_manager' = plugin_manager
          /\ ctl' = Pop(ctl)]_vars

\* an unknown operation called inside a script while variables and
\* functions are defined
C20_Witness ==
    /\ last.ev = "UnknownOperation"
    /\ last.name = "nosuch"
    /\ ret = Failed("ValueError", "Unknown operation: nosuch")
    /\ store.scope_stack # <<>>
    /\ store.global_vars # EmptyTable
    /\ functions # NoFunctions

\* the entries of a table that json can encode
Serializable(table) ==
    [m \in {q \in DOMAIN table : JsonEncodable(table[q])} |-> table[m]]

\* C21 as stated: the persistence document always holds exactly the
\* JSON-serializable entries of the persistent table; a value set as
\* persistent is returned by get in-process whether serializable or not; a
\* new store that loads the document gets every serializable persisted
\* variable back with its value.
C21_DocumentMirrorsPersistent ==
    /\ store.file = Document(Serializable(store.persistent_vars))
    /\ last.ev = "set" /\ last.n = 1 =>
          ~GetFails(store, last.name) /\ get(store, last.name) = last.value
    /\ last.ev = "get_variable_store" =>
          \A name \in DOMAIN Serializable(last.pre.persistent_vars) :
              /\ ~GetFails(store, name)
              /\ get(store, name) = last.pre.persistent_vars[name]

\* C22: list_all() agrees with get and has: a name is a key of the
\* returned dictionary exactly when has(name) is true, the dictionary maps
\* it to what get(name) returns, and the call leaves the store unchanged.
C22_ListAllAgreesWithGet ==
    [][last'.ev = "list_all" =>
          /\ store' = store
          /\ DOMAIN last'.table \subseteq Names
          /\ \A name \in Names :
                /\ name \in DOMAIN last'.table <=> has(store, name)
                /\ name \in DOMAIN last'.table <=> ~GetFails(store, name)
                /\ has(store, name) => last'.table[name] = get(store, name)]_vars

\* list_all while two frames bind a name to different values and the global
\* and the persistent table bind it too
C22_Witness ==
    /\ last.ev = "list_all"
    /\ \E name \in Names :
          /\ Holders(store, name) = {1, 2}
          /\ store.scope_stack[1][name] # store.scope_stack[2][name]
          /\ name \in DOMAIN store.global_vars
          /\ name \in DOMAIN store.persistent_vars
          /\ last.table[name] = store.scope_stack[2][name]

\* C23: push_scope adds one empty frame on top and pop_scope removes the
\* topmost frame only, both leaving the global and the persistent table
\* alone; a pop_scope right after a push_scope gives back the store as it
\* was before the push; pop_scope on an empty stack changes nothing and
\* does not fail.
C23_ScopeStackLifo ==
    [][/\ last'.ev = "push_scope" =>
             /\ store'.scope_stack = Append(store.scope_stack, EmptyTable)
             /\ store'.global_vars = store.global_vars
             /\ store'.persistent_vars = store.persistent_vars
             /\ store'.file = store.file
       /\ last'.ev = "pop_scope" =>
             /\ ret'.status # "Failed"
             /\ store'.global_vars = store.global_vars
             /\ store'.persistent_vars = store.persistent_vars
             /\ store'.file = store.file
             /\ IF store.scope_stack = <<>>
                THEN store' = store
                ELSE /\ Len(store'.scope_stack) = Len(store.scope_stack) - 1
                     /\ \A i \in DOMAIN store'.scope_stack :
                           store'.scope_stack[i] = store.scope_stack[i]
       /\ last.ev = "push_scope" /\ last'.ev = "pop_scope" => store' = last.pre]_vars

\* push_scope directly followed by pop_scope on top of a frame that binds a
\* variable, with a global binding too
C23_Witness ==
    /\ last.ev = "pop_scope"
    /\ last.clean
    /\ last.name = ""
    /\ store = last.pre
    /\ Len(store.scope_stack) = 1
    /\ store.scope_stack[1] # EmptyTable
    /\ store.global_vars # EmptyTable

\* a call is about to be resolved
AtResolving ==
    /\ ctl # <<>>
    /\ Top.k = "call"
    /\ Top.st = "Resolving"
    /\ Len(ctl) <= MaxCallDepth

\* the registries F and G differ at most in the entry of name
SameExcept(F, G, name) ==
    /\ (DOMAIN F) \ {name} = (DOMAIN G) \ {name}
    /\ \A m \in (DOMAIN F) \ {name} : F[m] = G[m]

\* C24: after a define, first or repeated, the registry maps the name to
\* the parameters, body and description of that define and to nothing of
\* an earlier definition (def gives no description); a call of a defined
\* function that no registered operation shadows is checked against the
\* arity the registry holds now; after undef or delete the name is no
\* longer in the registry, and a call of a name that neither the registry
\* nor the operations hold fails with "Unknown operation".
C24_RedefineReplaces ==
    [][/\ last'.ev = "define" /\ ret'.status = "Returned" =>
             /\ exists(functions', last'.name)
             /\ functions'[last'.name].parameters = last'.args
             /\ functions'[last'.name].body = last'.lines[1]
             /\ functions'[last'.name].description = last'.value
             /\ DOMAIN functions'[last'.name] = {"parameters", "body", "description"}
             /\ SameExcept(functions, functions', last'.name)
       /\ last'.ev = "BuiltinDispatch" /\ last'.name = "def" /\ ret'.status = "Returned" =>
             LET name == PyStr(last'.sargs[1])
                 eq == CHOOSE i \in DOMAIN last'.sargs :
                          /\ last'.sargs[i] = StrV("=")
                          /\ \A j \in 1..(i - 1) : last'.sargs[j] # StrV("=")
             IN  /\ exists(functions', name)
                 /\ functions'[name].parameters =
                        [i \in 1..(eq - 2) |-> PyStr(last'.sargs[i + 1])]
                 /\ functions'[name].body =
                        [i \in 1..(Len(last'.sargs) - eq) |-> PyStr(last'.sargs[eq + i])]
                 /\ functions'[name].description = NoneV
                 /\ SameExcept(functions, functions', name)
       /\ AtResolving /\ Top.op \notin DOMAIN ActiveOperations /\ exists(functions, Top.op) =>
             IF Len(Top.args) = Len(functions[Top.op].parameters)
             THEN last'.ev = "FunctionDispatch"
             ELSE /\ last'.ev = "ArityMismatch"
                  /\ ret' = Failed("ValueError",
                                   "Function '" \o Top.op \o "' expects "
                                      \o IntStr(Len(functions[Top.op].parameters))
                                      \o " argument(s), got " \o IntStr(Len(Top.args)))
       /\ last'.ev = "BuiltinDispatch" /\ last'.name = "undef" /\ ret'.status = "Returned" =>
             /\ exists(functions, last'.sargs[1].s)
             /\ ~exists(functions', last'.sargs[1].s)
             /\ SameExcept(functions, functions', last'.sargs[1].s)
       /\ last'.ev = "func_delete" /\ ret'.status = "Returned" =>
             /\ exists(functions, last'.name)
             /\ ~exists(functions', last'.name)
             /\ SameExcept(functions, functions', last'.name)
       /\ AtResolving /\ Top.op \notin DOMAIN ActiveOperations /\ ~exists(functions, Top.op) =>
             /\ last'.ev = "UnknownOperation"
             /\ ret' = Failed("ValueError", "Unknown operation: " \o Top.op)]_vars

\* a define with two parameters and no description that replaces a
\* definition with one parameter, another body and a description
C24_Witness ==
    /\ last.ev = "define"
    /\ ret.status = "Returned"
    /\ exists(last.prev, last.name)
    /\ last.prev[last.name].description = StrV("doubles")
    /\ Len(last.prev[last.name].parameters) = 1
    /\ functions[last.name] = UserFunction(<<"x", "y">>, <<"multiply", "$x", "$y">>, NoneV)

\* C25: a define, direct or through def, whose name is empty or no valid
\* identifier fails with ValueError, and a delete, direct or through undef,
\* of a name the registry does not hold fails with a "not defined" error;
\* both leave the function registry unchanged.
C25_InvalidDefineAndDelete ==
    [][/\ last'.ev = "define" /\ (last'.name = "" \/ ~IsIdentifier(last'.name)) =>
             /\ ret'.status = "Failed"
             /\ ret'.etype = "ValueError"
             /\ functions' = functions
       /\ last'.ev = "BuiltinDispatch" /\ last'.name = "def" /\ last'.sargs # <<>> =>
             LET name == PyStr(last'.sargs[1])
             IN  name = "" \/ ~IsIdentifier(name) =>
                    /\ ret'.status = "Failed"
                    /\ ret'.etype = "ValueError"
                    /\ functions' = functions
       /\ last'.ev = "func_delete" /\ ~exists(functions, last'.name) =>
             /\ ret' = Failed("KeyError", "Function '" \o last'.name \o "' is not defined")
             /\ functions' = functions
       /\ last'.ev = "BuiltinDispatch" /\ last'.name = "undef" /\ Len(last'.sargs) = 1 =>
             LET name == PyStr(last'.sargs[1])
             IN  ~exists(functions, name) =>
                    /\ ret' = Failed("ValueError", "Function '" \o name \o "' is not defined")
                    /\ functions' = functions]_vars

\* define of the name 2 fails while the registry holds a function, which stays
C25_Witness ==
    /\ last.ev = "define"
    /\ last.name = "2"
    /\ ret = Failed("ValueError", "Invalid function name: 2")
    /\ exists(functions, "f")
    /\ functions = last.prev

\* Python's == on two values: numbers compare by their number
PyEqual(v, w) ==
    IF v.k \in {"int", "float", "bool"} /\ w.k \in {"int", "float", "bool"}
    THEN v.n = w.n
    ELSE v = w

\* C26: for a command line whose first token is a registered operation the
\* interactive loop hands to that operation the values the scripted path
\* hands to it for the same store and the same text, which are the tokens
\* after the first with every $name token replaced by VariableStore.get(name).
C26_InteractiveMatchesScript ==
    (/\ last.ev = "interactive"
     /\ last.lines[1][1] \in DOMAIN plugin_manager.operations)
    => LET cmd == last.lines[1]
           scripted == substitute_variables(last.pre, Tail(cmd))
       IN  /\ last.clean
           /\ last.name = cmd[1]
           /\ Len(last.sargs) = Len(scripted)
           /\ \A i \in DOMAIN scripted : PyEqual(last.sargs[i], scripted[i])

\* C27: a history never holds more than max_entries entries; add_entry
\* puts the new entry first and moves every entry kept one place back, so
\* get_entry(0) is the most recent add and get_entry(i) the i-th most
\* recent; at capacity exactly the oldest entry is dropped; clear empties
\* the history; get_entry of an index outside 0..len-1 returns None and of
\* an index inside it that entry.
C27_HistoryNewestFirst ==
    [][/\ Len(history'.history) <= history'.max_entries
       /\ last'.ev = "add_entry" =>
             LET old == history.history
                 new == history'.history
                 max == history.max_entries
             IN  /\ Len(new) = (IF Len(old) < max THEN Len(old) + 1 ELSE max)
                 /\ max > 0 => new[1] = [command |-> last'.name, result |-> last'.value]
                 /\ \A i \in 2..Len(new) : new[i] = old[i - 1]
                 /\ history'.max_entries = max
       /\ last'.ev = "clear" => history'.history = <<>>
       /\ last'.ev = "get_entry" =>
             /\ history' = history
             /\ IF last'.n < 0 \/ last'.n >= Len(history.history)
                THEN ret' = Returned(NoneV)
                ELSE /\ ret'.val # NoneV
                     /\ history.history[last'.n + 1] =
                            [command |-> last'.name, result |-> last'.value]]_vars

\* an add_entry at capacity: the two most recent entries are kept in order
\* and the oldest is gone
C27_Witness ==
    /\ last.ev = "add_entry"
    /\ history.max_entries = 2
    /\ history.history = <<HistoryEntry("3+3", IntV(6)), HistoryEntry("2+2", IntV(4))>>
    /\ history.file = <<HistoryEntry("3+3", IntV(6)), HistoryEntry("2+2", IntV(4))>>

\* None or a key of the index
NoneOrKey(M, session_id) == session_id = "" \/ session_id \in SessionKeys(M)

FunctionFrames ==
    {i \in DOMAIN ctl : ctl[i].k = "call" /\ ctl[i].st = "FunctionDispatch"}

\* a function was dispatched while a call of it was on the call chain
Recursing ==
    \E i, j \in FunctionFrames : i < j /\ ctl[i].op = ctl[j].op

\* an execute_operation call has just returned or raised
OperationEnded ==
    last.ev \in {"BuiltinDispatch", "EvalReturn", "FunctionReturn", "ArityMismatch",
                 "UnknownOperation", "RecursionExhausted"}

\* C29: while no function is on the call chain twice, the user-function
\* calls nested in one another are at most as many as the defined
\* functions; while a function is on the call chain twice no
\* execute_operation call reaches Returned; and a call that ends with the call stack exhausted leaves the
\* scope stack as it found it.
C29_RecursionEndsFailed ==
    /\ ~Recursing => Cardinality(FunctionFrames) <= Cardinality(DOMAIN functions)
    /\ (Recursing /\ OperationEnded) => ret.status # "Returned"
    /\ (last.ev = "FunctionReturn" /\ ret.etype = "RecursionError") =>
          store.scope_stack = last.pre.scope_stack

\* the operation that ends the chain of body operations starting at name,
\* followed for at most fuel functions
RECURSIVE ChainEnd(_, _)
ChainEnd(name, fuel) ==
    IF name \in DOMAIN plugin_manager.operations \/ ~exists(functions, name) THEN name
    ELSE IF fuel = 0 \/ functions[name].body = <<>> THEN ""
    ELSE ChainEnd(Head(functions[name].body), fuel - 1)

\* the frames of the caller and the tables below them are the same in S and T
SameBelowTop(S, T) ==
    /\ S.global_vars = T.global_vars
    /\ S.persistent_vars = T.persistent_vars
    /\ Len(S.scope_stack) = Len(T.scope_stack)
    /\ \A i \in 1..(Len(S.scope_stack) - 1) : S.scope_stack[i] = T.scope_stack[i]

\* C30: a set that runs while a user function is on the call chain writes
\* the innermost frame only; when a call of a user function whose chain of
\* body operations ends in set returns, get and has answer for every name
\* as they did when the call was entered; and the step that pushes the
\* frame of a call and binds its parameters leaves the frames of the
\* caller, the global table and the persistent table as they were.
C30_SetStaysInFrame ==
    [][/\ (last'.ev = "FunctionReturn"
            /\ ChainEnd(last'.name, Cardinality(DOMAIN functions)) = "set") =>
             \A name \in Names : SameAnswer(store', last'.pre, name)
       /\ (last'.ev = "BuiltinDispatch" /\ last'.name = "set" /\ FunctionFrames # {}) =>
             SameBelowTop(store', store)
       /\ last'.ev = "FunctionDispatch" =>
             /\ store'.global_vars = store.global_vars
             /\ store'.persistent_vars = store.persistent_vars
             /\ \A i \in DOMAIN store.scope_stack :
                    /\ i \in DOMAIN store'.scope_stack
                    /\ store'.scope_stack[i] = store.scope_stack[i]]_vars

\* s 2 has returned: its parameter y was bound to 2 and its body set x to
\* 2 in the frame of the call, and the caller still finds x = 1 and no y
C30_Witness ==
    /\ last.ev = "FunctionReturn"
    /\ last.name = "s"
    /\ ctl = <<>>
    /\ ret.status = "Returned"
    /\ ret.val.s = "$x = 2"
    /\ ~GetFails(store, "x")
    /\ get(store, "x") = IntV(1)
    /\ GetFails(store, "y")

====
